---- MODULE Spec2Model ----
(***************************************************************************)
(* Model of the Enhanced Evaluation RAG agent (agent.py, workflow.py,      *)
(* workflow_nodes.py, intent_detection.py, business_handlers.py,           *)
(* components.py).  One session of EnhancedEvaluationRAGAgentV2.ask is a   *)
(* walk through the compiled LangGraph workflow; every node is one action. *)
(* Confidences are kept in tenths (7.0 is 70, 6.5 is 65).                  *)
(* Spec is one call of ask with every input left open; TwoCallSpec is      *)
(* repeated calls of ask on one agent against fixed stand-ins.             *)
(***************************************************************************)
EXTENDS Integers, Sequences, FiniteSets, TLC

VARIABLES pc, state, aliased, response, raised,
          retrieval_calls, scorer_returns, executed, oracle_calls, agent, sessions

vars == <<pc, state, aliased, response, raised,
          retrieval_calls, scorer_returns, executed, oracle_calls, agent, sessions>>

(* ---------------------------- bounds ----------------------------------- *)
\* number of distinct non-empty document sets the retrieval service can return
NumDocSets == 2
\* the largest n of a well-formed oracle reply "CONFIDENCE: n"
MaxReply == 7

(* ------------------------- program constants --------------------------- *)
MAX_REASONING_ATTEMPTS == 3
PARTIAL_FLOOR == 50
AUGMENT_ACCEPT == 70
DOSAGE_FALLBACK_CONFIDENCE == 70
DEFAULT_THRESHOLD == 70
SCORER_EMPTY_CONFIDENCE == 0
SCORER_ERROR_CONFIDENCE == 30
SCORER_DEFAULT_CONFIDENCE == 50
SECOND_PASS_DEFAULT_CONFIDENCE == 30
SAFETY_MIN_LEN == 150
SAFETY_MAX_LEN == 2500
SAFETY_MIN_NEWLINES == 3

(* ----------------------------- texts ----------------------------------- *)
\* what the generation oracle can write (after .strip()): its length, whether
\* it holds the phone number or the site address, a contact keyword, a
\* grounding keyword, and its number of line breaks
NoBody == [len |-> 0, phone |-> FALSE, contact |-> FALSE, foundation |-> FALSE, nl |-> 0]

Body(l, p, c, f, n) == [len |-> l, phone |-> p, contact |-> c, foundation |-> f, nl |-> n]

LLMBodies ==
    { NoBody,
      Body(SAFETY_MIN_LEN, TRUE, TRUE, TRUE, SAFETY_MIN_NEWLINES),
      Body(SAFETY_MAX_LEN, FALSE, TRUE, TRUE, SAFETY_MIN_NEWLINES),
      Body(SAFETY_MIN_LEN - 1, TRUE, TRUE, TRUE, SAFETY_MIN_NEWLINES),
      Body(SAFETY_MAX_LEN + 1, TRUE, TRUE, TRUE, SAFETY_MIN_NEWLINES),
      Body(SAFETY_MIN_LEN, FALSE, FALSE, TRUE, SAFETY_MIN_NEWLINES),
      Body(SAFETY_MIN_LEN, TRUE, TRUE, FALSE, SAFETY_MIN_NEWLINES),
      Body(SAFETY_MIN_LEN, TRUE, TRUE, TRUE, SAFETY_MIN_NEWLINES - 1) }

Text(k, b, foot) == [kind |-> k, body |-> b, footer |-> foot]

EmptyText == Text("empty", NoBody, FALSE)

Template(k) == Text(k, NoBody, FALSE)

\* len(text) > 0: the templates are non-empty literals, an oracle text is
\* non-empty when the oracle wrote something or a footer was appended
NonEmpty(t) ==
    CASE t.kind = "empty" -> FALSE
      [] t.kind \in {"generated", "augmented"} -> t.body.len > 0 \/ t.footer
      [] OTHER -> TRUE

(* ----------------------------- queries --------------------------------- *)
\* a user query is known by the keyword tables of analyze_query_intent it hits
Queries == [business : BOOLEAN, production : BOOLEAN, dosage : BOOLEAN,
            problem : BOOLEAN, support : BOOLEAN]

\* str values of current_query: "", the original text, or a reformulation
NoQuery == [kind |-> "empty", attempt |-> 0]

OriginalText == [kind |-> "original", attempt |-> 0]

\* the query string optimize_query_for_attempt returns for attempt n
Optimized(n) == [kind |-> "optimized", attempt |-> n]

\* replies of detect_intent_with_llm; "raise" is an exception, "unavailable"
\* is get_dynamic_optimizer() returning None
LLMIntents == {"technical", "setup", "other", "raise", "unavailable"}

(* ------------------------ documents and replies ------------------------ *)
NoResults == 0

ResultSets == 0..NumDocSets

\* a reply of the scoring oracle: the call raises, the text has no CONFIDENCE
\* pattern, or it reads "CONFIDENCE: n"
Reply(k, n) == [kind |-> k, n |-> n]

\* the numbers the oracle writes in a session; the scores up to the 5.0 floor
\* are represented by the scorer's own scores 0.0 (no documents), 3.0 (oracle
\* error) and 5.0 (no CONFIDENCE pattern in the reply)
ReplyNumbers == {n \in 1..MaxReply : n >= 6}

Replies == {Reply("raise", 0), Reply("malformed", 0)} \cup {Reply("number", n) : n \in ReplyNumbers}

RECURSIVE FirstDigit(_)
FirstDigit(n) == IF n < 10 THEN n ELSE FirstDigit(n \div 10)

\* re.search(r'CONFIDENCE:\s*([1-9]|10)', text): the alternation takes a single
\* digit 1-9 first, so only the leading digit is captured; a leading 0 does
\* not match.  The result is float(group) or the stage's default.
ParseConfidence(reply, default) ==
    IF reply.kind = "number" /\ FirstDigit(reply.n) \in 1..9
    THEN 10 * FirstDigit(reply.n)
    ELSE default

ScorerResult(c, r) == [confidence |-> c, reasoning |-> r]

\* faulty scorer: a failed oracle call gives the confidence of a reply without
\* the pattern
evaluate_content_quality_ErrorIsDefault(results, reply) ==
    IF results = NoResults
    THEN ScorerResult(SCORER_EMPTY_CONFIDENCE, "no_results")
    ELSE IF reply.kind = "raise"
    THEN ScorerResult(SCORER_DEFAULT_CONFIDENCE, "evaluation_failed")
    ELSE ScorerResult(ParseConfidence(reply, SCORER_DEFAULT_CONFIDENCE),
                      IF reply.kind = "number" THEN "parsed" ELSE "no_reasoning")

\* components.evaluate_content_quality
evaluate_content_quality(results, reply) ==
    IF results = NoResults
    THEN ScorerResult(SCORER_EMPTY_CONFIDENCE, "no_results")
    ELSE IF reply.kind = "raise"
    THEN ScorerResult(SCORER_ERROR_CONFIDENCE, "evaluation_failed")
    ELSE ScorerResult(ParseConfidence(reply, SCORER_DEFAULT_CONFIDENCE),
                      IF reply.kind = "number" THEN "parsed" ELSE "no_reasoning")

\* faulty second pass: a failed oracle call counts as full confidence
evaluate_augmented_response_ErrorAccepted(reply) ==
    IF reply.kind = "raise"
    THEN ScorerResult(100, "evaluation_failed")
    ELSE ScorerResult(ParseConfidence(reply, SECOND_PASS_DEFAULT_CONFIDENCE),
                      IF reply.kind = "number" THEN "parsed" ELSE "no_reasoning")

\* evaluate_augmented_response
evaluate_augmented_response(reply) ==
    IF reply.kind = "raise"
    THEN ScorerResult(SECOND_PASS_DEFAULT_CONFIDENCE, "evaluation_failed")
    ELSE ScorerResult(ParseConfidence(reply, SECOND_PASS_DEFAULT_CONFIDENCE),
                      IF reply.kind = "number" THEN "parsed" ELSE "no_reasoning")

\* faulty safety gate: the structure check (line breaks) is missing
passes_safety_checks_NoStructure(body) ==
    /\ ~(body.len < SAFETY_MIN_LEN \/ body.len > SAFETY_MAX_LEN)
    /\ body.contact
    /\ body.foundation

\* passes_safety_checks
passes_safety_checks(body) ==
    /\ ~(body.len < SAFETY_MIN_LEN \/ body.len > SAFETY_MAX_LEN)
    /\ body.contact
    /\ body.foundation
    /\ ~(body.nl < SAFETY_MIN_NEWLINES)

(* --------------------------- session state ----------------------------- *)
\* best_partial_result: None, or the dict stored by the evaluation node
NoPartial == [isNone |-> TRUE, confidence |-> 0, reasoning |-> "", results |-> NoResults,
              attempt |-> 0, query |-> NoQuery]

\* the dict ask() passes to workflow.invoke
initial_state(user_query) ==
    [ original_query |-> user_query,
      current_query |-> NoQuery,
      attempt_count |-> 0,
      attempt_history |-> << >>,
      search_results |-> NoResults,
      model_confidence |-> 0,
      all_results |-> << >>,
      evaluation_log |-> << >>,
      final_answer |-> EmptyText,
      should_continue |-> TRUE,
      escalate |-> FALSE,
      query_intent |-> "general",
      business_type |-> "none",
      requires_trade_secret_filter |-> FALSE,
      confidence_threshold_override |-> DEFAULT_THRESHOLD,
      company_context_added |-> FALSE,
      best_partial_result |-> NoPartial,
      best_partial_confidence |-> 0,
      attempt_confidences |-> << >>,
      has_usable_partial |-> FALSE,
      use_augmentation |-> FALSE,
      augmentation_used |-> FALSE,
      augmentation_confidence |-> 0,
      augmentation_reasoning |-> "" ]

\* How the graph runtime stores what a node returns.  A plain channel takes the
\* returned value; a channel annotated with operator.add becomes
\* channel + returned value.  chan is the channel content at the time of the
\* write: when the runtime hands the node the channel's own list objects
\* (aliased), the node's in-place appends (mutated) are already in it.
Commit(before, mutated, ret) ==
    LET chan == IF aliased THEN mutated ELSE before
    IN [ret EXCEPT !.attempt_history = chan.attempt_history \o ret.attempt_history,
                   !.all_results = chan.all_results \o ret.all_results,
                   !.evaluation_log = chan.evaluation_log \o ret.evaluation_log,
                   !.attempt_confidences = chan.attempt_confidences \o ret.attempt_confidences]

LogEntry(k, n, c) == [kind |-> k, attempt |-> n, confidence |-> c]

(* ------------------------------- nodes --------------------------------- *)
\* initialize_evaluation_v2: the returned dict
initialize_evaluation_v2(s) ==
    [s EXCEPT !.current_query = OriginalText,
              !.attempt_count = 0,
              !.attempt_history = << >>,
              !.all_results = << >>,
              !.evaluation_log = << LogEntry("start", 0, 0) >>,
              !.should_continue = TRUE,
              !.escalate = FALSE,
              !.query_intent = "general",
              !.business_type = "none",
              !.requires_trade_secret_filter = FALSE,
              !.confidence_threshold_override = DEFAULT_THRESHOLD,
              !.company_context_added = FALSE,
              !.best_partial_result = NoPartial,
              !.best_partial_confidence = 0,
              !.attempt_confidences = << >>,
              !.has_usable_partial = FALSE,
              !.use_augmentation = FALSE,
              !.augmentation_used = FALSE,
              !.augmentation_confidence = 0,
              !.augmentation_reasoning = ""]

Classified(i, b, t, th) == [intent |-> i, business_type |-> b, trade_secret |-> t, threshold |-> th]

\* faulty mapping: an intent outside the table is kept as it is
intent_mapping_KeepsUnknown(llm_intent) ==
    CASE llm_intent = "technical" -> <<"technical", 65>>
      [] llm_intent = "product" -> <<"product_info", 70>>
      [] llm_intent = "troubleshooting" -> <<"troubleshooting", 65>>
      [] llm_intent = "setup" -> <<"setup", 60>>
      [] llm_intent = "maintenance" -> <<"maintenance", 65>>
      [] OTHER -> <<llm_intent, 70>>

\* intent_mapping of analyze_query_intent, with the else branch and the two
\* failure branches (exception, optimizer unavailable)
intent_mapping(llm_intent) ==
    CASE llm_intent = "technical" -> <<"technical", 65>>
      [] llm_intent = "product" -> <<"product_info", 70>>
      [] llm_intent = "troubleshooting" -> <<"troubleshooting", 65>>
      [] llm_intent = "setup" -> <<"setup", 60>>
      [] llm_intent = "maintenance" -> <<"maintenance", 65>>
      [] llm_intent = "general" -> <<"general", 70>>
      [] OTHER -> <<"general", 70>>

\* faulty classifier: the first matching table decides and later tables are
\* not applied
PatternStage_FirstMatchWins(q) ==
    LET c0 == Classified("general", "none", FALSE, DEFAULT_THRESHOLD)
    IN CASE q.business ->
               [c0 EXCEPT !.intent = "business", !.business_type = "partnership", !.threshold = 90]
         [] q.production ->
               [c0 EXCEPT !.intent = "production", !.trade_secret = TRUE, !.threshold = 50]
         [] q.dosage -> [c0 EXCEPT !.intent = "dosage", !.threshold = 60]
         [] q.problem -> [c0 EXCEPT !.intent = "troubleshooting", !.threshold = 65]
         [] q.support ->
               [c0 EXCEPT !.intent = "support", !.business_type = "technical_support", !.threshold = 65]
         [] OTHER -> c0

\* faulty classifier: the dosage table clears what the business and the
\* production table set
PatternStage_LaterClears(q) ==
    LET c0 == Classified("general", "none", FALSE, DEFAULT_THRESHOLD)
        c1 == IF q.business
              THEN [c0 EXCEPT !.intent = "business", !.business_type = "partnership", !.threshold = 90]
              ELSE c0
        c2 == IF q.production
              THEN [c1 EXCEPT !.intent = "production", !.trade_secret = TRUE, !.threshold = 50]
              ELSE c1
        c3 == IF q.dosage
              THEN Classified("dosage", "none", FALSE, 60)
              ELSE c2
        c4 == IF q.problem
              THEN [c3 EXCEPT !.intent = "troubleshooting", !.threshold = 65]
              ELSE c3
        c5 == IF q.support
              THEN [c4 EXCEPT !.intent = "support", !.business_type = "technical_support", !.threshold = 65]
              ELSE c4
    IN c5

\* the pattern tables of analyze_query_intent, applied in source order; each
\* matching table overwrites what the earlier ones set
PatternStage(q) ==
    LET c0 == Classified("general", "none", FALSE, DEFAULT_THRESHOLD)
        c1 == IF q.business
              THEN [c0 EXCEPT !.intent = "business", !.business_type = "partnership", !.threshold = 90]
              ELSE c0
        c2 == IF q.production
              THEN [c1 EXCEPT !.intent = "production", !.trade_secret = TRUE, !.threshold = 50]
              ELSE c1
        c3 == IF q.dosage
              THEN [c2 EXCEPT !.intent = "dosage", !.threshold = 60]
              ELSE c2
        c4 == IF q.problem
              THEN [c3 EXCEPT !.intent = "troubleshooting", !.threshold = 65]
              ELSE c3
        c5 == IF q.support
              THEN [c4 EXCEPT !.intent = "support", !.business_type = "technical_support", !.threshold = 65]
              ELSE c4
    IN c5

\* the classifier's result for query q when the intent oracle would answer llm
Classify(q, llm) ==
    LET c == PatternStage(q)
    IN IF c.intent = "general"
       THEN [c EXCEPT !.intent = intent_mapping(llm)[1], !.threshold = intent_mapping(llm)[2]]
       ELSE c

\* analyze_query_intent: the returned dict
analyze_query_intent(s, llm) ==
    LET c == Classify(s.original_query, llm)
    IN [s EXCEPT !.query_intent = c.intent,
                 !.business_type = c.business_type,
                 !.requires_trade_secret_filter = c.trade_secret,
                 !.confidence_threshold_override = c.threshold,
                 !.company_context_added = TRUE]

\* faulty edge: the trade-secret branch is missing
business_or_trade_secrets_NoFilter(s) ==
    IF s.business_type \in {"partnership", "technical_support"}
    THEN "handle_business_query"
    ELSE "execute_search_attempt"

\* faulty edge: the trade-secret branch is tested before the business branch
business_or_trade_secrets_SecretFirst(s) ==
    IF s.requires_trade_secret_filter
    THEN "check_trade_secrets"
    ELSE IF s.business_type \in {"partnership", "technical_support"}
    THEN "handle_business_query"
    ELSE "execute_search_attempt"

\* the conditional edge after analyze_query_intent
business_or_trade_secrets(s) ==
    IF s.business_type \in {"partnership", "technical_support"}
    THEN "handle_business_query"
    ELSE IF s.requires_trade_secret_filter
    THEN "check_trade_secrets"
    ELSE "execute_search_attempt"

\* handle_business_query: the returned dict
handle_business_query(s) ==
    IF s.business_type = "partnership"
    THEN [s EXCEPT !.final_answer = Template("partnership"),
                   !.should_continue = FALSE,
                   !.model_confidence = 100]
    ELSE IF s.business_type = "technical_support"
    THEN [s EXCEPT !.final_answer = Template("technical_support"),
                   !.should_continue = FALSE,
                   !.model_confidence = 90]
    ELSE s

\* check_trade_secrets: the returned dict
check_trade_secrets(s) ==
    IF s.requires_trade_secret_filter
    THEN [s EXCEPT !.final_answer = Template("trade_secret"),
                   !.should_continue = FALSE,
                   !.model_confidence = 90]
    ELSE s

\* search_strategies of execute_search_attempt: top_k and use_multi_query
search_strategies(attempt) ==
    CASE attempt = 1 -> [top_k |-> 8, use_multi_query |-> FALSE]
      [] attempt = 2 -> [top_k |-> 12, use_multi_query |-> TRUE]
      [] OTHER -> [top_k |-> 16, use_multi_query |-> TRUE]

\* what the retrieval service does on a call of search_knowledge: the index
\* object is missing, embed_query raises, index.query raises, or the query
\* returns the matches of a document set (NoResults for no match)
ServiceFailure(at) == [kind |-> "failure", at |-> at, docs |-> NoResults]

ServiceMatches(docs) == [kind |-> "matches", at |-> "", docs |-> docs]

ServiceOutcomes ==
    {ServiceFailure(at) : at \in {"index", "embedding", "query"}} \cup
    {ServiceMatches(docs) : docs \in ResultSets}

\* what the multi-query branch gets from the optimizer: no optimizer, a
\* non-empty list of variants, an empty list, or an exception in the branch
VariantOutcomes == {"unavailable", "generated", "none", "raise"}

\* faulty search: a failed call hands back a document list
search_knowledge_ErrorGivesDocuments(service) ==
    IF service.kind = "matches" THEN service.docs ELSE 1

\* components.search_knowledge: the formatted matches, [] on any failure
search_knowledge(service) ==
    IF service.kind = "matches" THEN service.docs ELSE NoResults

\* components.search_knowledge_enhanced: the variants are searched one by one
\* against the same service and merged; the single-query search otherwise and
\* when the branch raises
search_knowledge_enhanced(use_multi_query, variants, service) ==
    IF use_multi_query /\ variants # "unavailable"
    THEN CASE variants = "raise" -> search_knowledge(service)
           [] variants = "none" -> NoResults
           [] OTHER -> search_knowledge(service)
    ELSE search_knowledge(service)

AttemptInfo(n, q, results) ==
    [attempt |-> n, optimized_query |-> q, results |-> results,
     search_strategy |-> search_strategies(n)]

\* execute_search_attempt, lines 489-493: the lists of the state are appended
\* to in place
execute_search_attempt_mutation(s, results) ==
    LET attempt == s.attempt_count + 1
    IN [s EXCEPT !.attempt_history =
                     Append(@, AttemptInfo(attempt, Optimized(attempt), results)),
                 !.all_results = Append(@, results)]

\* faulty search node: the attempt counter is advanced by two
execute_search_attempt_SkipsAttempt(s, results) ==
    LET attempt == s.attempt_count + 2
        m == execute_search_attempt_mutation(s, results)
    IN [m EXCEPT !.attempt_count = attempt,
                 !.current_query = Optimized(attempt),
                 !.search_results = results,
                 !.evaluation_log = << LogEntry("search", attempt, 0) >>]

\* execute_search_attempt: the returned dict
execute_search_attempt(s, results) ==
    LET attempt == s.attempt_count + 1
        m == execute_search_attempt_mutation(s, results)
    IN [m EXCEPT !.attempt_count = attempt,
                 !.current_query = Optimized(attempt),
                 !.search_results = results,
                 !.evaluation_log = << LogEntry("search", attempt, 0) >>]

\* faulty fallback: the session threshold is overwritten with the confidence
generate_dosage_fallback_OverridesThreshold(s, c) ==
    [s EXCEPT !.final_answer = Template("dosage_fallback"),
              !.should_continue = FALSE,
              !.model_confidence = DOSAGE_FALLBACK_CONFIDENCE,
              !.confidence_threshold_override = c,
              !.evaluation_log = << LogEntry("dosage_fallback", s.attempt_count, c) >>]

\* generate_dosage_fallback: the returned dict
generate_dosage_fallback(s, c) ==
    [s EXCEPT !.final_answer = Template("dosage_fallback"),
              !.should_continue = FALSE,
              !.model_confidence = DOSAGE_FALLBACK_CONFIDENCE,
              !.evaluation_log = << LogEntry("dosage_fallback", s.attempt_count, c) >>]

Reasoning(k, n, c) == [kind |-> k, attempt |-> n, confidence |-> c]

NoReasoning == Reasoning("", 0, 0)

protected_intents == {"business", "dosage", "production"}

\* faulty eligibility: a usable partial is not required
check_augmentation_eligibility_NoPartialTest(s, current_confidence) ==
    IF s.query_intent \notin protected_intents
    THEN [s EXCEPT !.should_continue = FALSE,
                   !.escalate = FALSE,
                   !.use_augmentation = TRUE,
                   !.model_confidence = current_confidence,
                   !.augmentation_reasoning =
                       Reasoning("using_partial", s.best_partial_result.attempt,
                                 s.best_partial_confidence),
                   !.evaluation_log =
                       << LogEntry("triggering_augmentation", s.attempt_count, current_confidence) >>]
    ELSE [s EXCEPT !.model_confidence = current_confidence,
                   !.should_continue = FALSE,
                   !.escalate = TRUE,
                   !.evaluation_log =
                       << LogEntry("escalating", s.attempt_count, current_confidence) >>]

\* check_augmentation_eligibility: the returned dict
check_augmentation_eligibility(s, current_confidence) ==
    IF /\ s.has_usable_partial
       /\ s.best_partial_confidence >= PARTIAL_FLOOR
       /\ s.query_intent \notin protected_intents
    THEN [s EXCEPT !.should_continue = FALSE,
                   !.escalate = FALSE,
                   !.use_augmentation = TRUE,
                   !.model_confidence = current_confidence,
                   !.augmentation_reasoning =
                       Reasoning("using_partial", s.best_partial_result.attempt,
                                 s.best_partial_confidence),
                   !.evaluation_log =
                       << LogEntry("triggering_augmentation", s.attempt_count, current_confidence) >>]
    ELSE [s EXCEPT !.model_confidence = current_confidence,
                   !.should_continue = FALSE,
                   !.escalate = TRUE,
                   !.evaluation_log =
                       << LogEntry("escalating", s.attempt_count, current_confidence) >>]

\* faulty memo: the comparison with the current best is left out
TrackBestPartial_NoCompare(s, r) ==
    IF r.confidence >= PARTIAL_FLOOR
    THEN [s EXCEPT !.best_partial_result =
                       [isNone |-> FALSE, confidence |-> r.confidence,
                        reasoning |-> r.reasoning, results |-> s.search_results,
                        attempt |-> s.attempt_count, query |-> s.current_query],
                   !.best_partial_confidence = r.confidence,
                   !.has_usable_partial = TRUE]
    ELSE s

\* faulty memo: a tie with the current best replaces it
TrackBestPartial_TieReplaces(s, r) ==
    IF r.confidence >= PARTIAL_FLOOR /\ r.confidence >= s.best_partial_confidence
    THEN [s EXCEPT !.best_partial_result =
                       [isNone |-> FALSE, confidence |-> r.confidence,
                        reasoning |-> r.reasoning, results |-> s.search_results,
                        attempt |-> s.attempt_count, query |-> s.current_query],
                   !.best_partial_confidence = r.confidence,
                   !.has_usable_partial = TRUE]
    ELSE s

\* faulty memo: the partial is stored without setting has_usable_partial
TrackBestPartial_ForgetsFlag(s, r) ==
    IF r.confidence >= PARTIAL_FLOOR /\ r.confidence > s.best_partial_confidence
    THEN [s EXCEPT !.best_partial_result =
                       [isNone |-> FALSE, confidence |-> r.confidence,
                        reasoning |-> r.reasoning, results |-> s.search_results,
                        attempt |-> s.attempt_count, query |-> s.current_query],
                   !.best_partial_confidence = r.confidence]
    ELSE s

\* lines 59-78 of enhanced_evaluate_content_quality_v2: the best partial memo
TrackBestPartial(s, r) ==
    IF r.confidence >= PARTIAL_FLOOR /\ r.confidence > s.best_partial_confidence
    THEN [s EXCEPT !.best_partial_result =
                       [isNone |-> FALSE, confidence |-> r.confidence,
                        reasoning |-> r.reasoning, results |-> s.search_results,
                        attempt |-> s.attempt_count, query |-> s.current_query],
                   !.best_partial_confidence = r.confidence,
                   !.has_usable_partial = TRUE]
    ELSE s

\* lines 81-82: attempt_confidences.append(confidence) on the state's own list
enhanced_evaluate_mutation(s, reply) ==
    LET r == evaluate_content_quality(s.search_results, reply)
    IN [TrackBestPartial(s, r) EXCEPT !.attempt_confidences = Append(@, r.confidence)]

\* faulty evaluation: the exhaustion tests read attempt > MAX_REASONING_ATTEMPTS
enhanced_evaluate_OffByOne(s, reply) ==
    LET attempt == s.attempt_count
        r == evaluate_content_quality(s.search_results, reply)
        confidence == r.confidence
        st == enhanced_evaluate_mutation(s, reply)
        confidence_threshold == st.confidence_threshold_override
    IN IF /\ st.query_intent = "dosage"
          /\ confidence < confidence_threshold
          /\ attempt > MAX_REASONING_ATTEMPTS
       THEN generate_dosage_fallback(st, confidence)
       ELSE IF confidence >= confidence_threshold
       THEN [st EXCEPT !.model_confidence = confidence,
                       !.should_continue = FALSE,
                       !.evaluation_log = << LogEntry("evaluation", attempt, confidence) >>]
       ELSE IF attempt > MAX_REASONING_ATTEMPTS
       THEN check_augmentation_eligibility(st, confidence)
       ELSE [st EXCEPT !.model_confidence = confidence,
                       !.should_continue = TRUE,
                       !.evaluation_log = << LogEntry("continuing", attempt, confidence) >>]

\* faulty evaluation: a confidence equal to the threshold is not accepted
enhanced_evaluate_StrictAccept(s, reply) ==
    LET attempt == s.attempt_count
        r == evaluate_content_quality(s.search_results, reply)
        confidence == r.confidence
        st == enhanced_evaluate_mutation(s, reply)
        confidence_threshold == st.confidence_threshold_override
    IN IF /\ st.query_intent = "dosage"
          /\ confidence < confidence_threshold
          /\ attempt >= MAX_REASONING_ATTEMPTS
       THEN generate_dosage_fallback(st, confidence)
       ELSE IF confidence > confidence_threshold
       THEN [st EXCEPT !.model_confidence = confidence,
                       !.should_continue = FALSE,
                       !.evaluation_log = << LogEntry("evaluation", attempt, confidence) >>]
       ELSE IF attempt >= MAX_REASONING_ATTEMPTS
       THEN check_augmentation_eligibility(st, confidence)
       ELSE [st EXCEPT !.model_confidence = confidence,
                       !.should_continue = TRUE,
                       !.evaluation_log = << LogEntry("continuing", attempt, confidence) >>]

\* enhanced_evaluate_content_quality_v2: the returned dict
enhanced_evaluate_content_quality_v2(s, reply) ==
    LET attempt == s.attempt_count
        r == evaluate_content_quality(s.search_results, reply)
        confidence == r.confidence
        st == enhanced_evaluate_mutation(s, reply)
        confidence_threshold == st.confidence_threshold_override
    IN IF /\ st.query_intent = "dosage"
          /\ confidence < confidence_threshold
          /\ attempt >= MAX_REASONING_ATTEMPTS
       THEN generate_dosage_fallback(st, confidence)
       ELSE IF confidence >= confidence_threshold
       THEN [st EXCEPT !.model_confidence = confidence,
                       !.should_continue = FALSE,
                       !.evaluation_log = << LogEntry("evaluation", attempt, confidence) >>]
       ELSE IF attempt >= MAX_REASONING_ATTEMPTS
       THEN check_augmentation_eligibility(st, confidence)
       ELSE [st EXCEPT !.model_confidence = confidence,
                       !.should_continue = TRUE,
                       !.evaluation_log = << LogEntry("continuing", attempt, confidence) >>]

\* faulty edge: the augmentation stage is chosen by the memo, not by the flag
continue_augment_or_finish_ByPartial(s) ==
    IF s.should_continue
    THEN "execute_search_attempt"
    ELSE IF s.has_usable_partial
    THEN "gpt_augmentation_mode"
    ELSE "generate_evaluation_answer"

\* faulty edge: an escalated state is sent back to the search
continue_augment_or_finish_Retry(s) ==
    IF s.should_continue \/ s.escalate
    THEN "execute_search_attempt"
    ELSE IF s.use_augmentation
    THEN "gpt_augmentation_mode"
    ELSE "generate_evaluation_answer"

\* faulty edge: a continuing session is evaluated again without a retrieval
continue_augment_or_finish_Reevaluate(s) ==
    IF s.should_continue
    THEN "enhanced_evaluate_content_quality"
    ELSE IF s.use_augmentation
    THEN "gpt_augmentation_mode"
    ELSE "generate_evaluation_answer"

\* the conditional edge after enhanced_evaluate_content_quality
continue_augment_or_finish(s) ==
    IF s.should_continue
    THEN "execute_search_attempt"
    ELSE IF s.use_augmentation
    THEN "gpt_augmentation_mode"
    ELSE "generate_evaluation_answer"

\* what the generation oracle does on one call: it raises, or writes a text
Generation(b) == [raises |-> FALSE, body |-> b]

GenerationRaises == [raises |-> TRUE, body |-> NoBody]

\* the augmentation call: every way to pass or fail the safety checks
Generations == {GenerationRaises} \cup {Generation(b) : b \in LLMBodies}

\* the answer call: the synthesizer only looks for the phone number or the site
\* address in the text, so an empty text, one with and one without them
AnswerGenerations ==
    {GenerationRaises} \cup
    {Generation(b) : b \in {NoBody,
                            Body(SAFETY_MIN_LEN, TRUE, TRUE, TRUE, SAFETY_MIN_NEWLINES),
                            Body(SAFETY_MIN_LEN, FALSE, FALSE, TRUE, SAFETY_MIN_NEWLINES)}}

\* gpt_augmentation_mode: the returned dict (the state has a best partial)
gpt_augmentation_mode(s, gen, reply) ==
    IF gen.raises
    THEN [s EXCEPT !.escalate = TRUE,
                   !.should_continue = FALSE,
                   !.augmentation_used = FALSE,
                   !.augmentation_reasoning = Reasoning("augmentation_error", 0, 0),
                   !.evaluation_log = << LogEntry("augmentation_error", s.attempt_count, 0) >>]
    ELSE LET second == evaluate_augmented_response(reply)
             safety_passed == passes_safety_checks(gen.body)
         IN IF second.confidence >= AUGMENT_ACCEPT /\ safety_passed
            THEN [s EXCEPT !.final_answer = Text("augmented", gen.body, FALSE),
                           !.model_confidence = second.confidence,
                           !.augmentation_used = TRUE,
                           !.augmentation_confidence = second.confidence,
                           !.should_continue = FALSE,
                           !.escalate = FALSE,
                           !.evaluation_log =
                               << LogEntry("augmentation_successful", s.attempt_count, second.confidence) >>]
            ELSE [s EXCEPT !.escalate = TRUE,
                           !.should_continue = FALSE,
                           !.augmentation_used = FALSE,
                           !.augmentation_reasoning =
                               IF second.confidence < AUGMENT_ACCEPT
                               THEN Reasoning("low_confidence", 0, second.confidence)
                               ELSE Reasoning("safety_check_failed", 0, 0),
                           !.evaluation_log =
                               << LogEntry("augmentation_failed", s.attempt_count, second.confidence) >>]

\* faulty synthesizer: the generated answer drops the best partial memo
generate_evaluation_answer_ForgetsPartial(s, gen) ==
    IF s.escalate
    THEN [s EXCEPT !.final_answer = Template("escalation"),
                   !.should_continue = FALSE]
    ELSE IF gen.raises
    THEN [s EXCEPT !.final_answer = Template("generation_error"),
                   !.should_continue = FALSE,
                   !.escalate = TRUE]
    ELSE [s EXCEPT !.final_answer = Text("generated", gen.body, ~gen.body.phone),
                   !.should_continue = FALSE,
                   !.best_partial_result = NoPartial,
                   !.best_partial_confidence = 0,
                   !.has_usable_partial = FALSE]

\* generate_evaluation_answer: the returned dict
generate_evaluation_answer(s, gen) ==
    IF s.escalate
    THEN [s EXCEPT !.final_answer = Template("escalation"),
                   !.should_continue = FALSE]
    ELSE IF gen.raises
    THEN [s EXCEPT !.final_answer = Template("generation_error"),
                   !.should_continue = FALSE,
                   !.escalate = TRUE]
    ELSE [s EXCEPT !.final_answer = Text("generated", gen.body, ~gen.body.phone),
                   !.should_continue = FALSE]

(* ----------------------------- ask ------------------------------------- *)
NoResponse ==
    [ keys |-> {}, answer |-> EmptyText, attempts |-> 0, model_confidence |-> 0,
      evaluation_log |-> << >>, escalated |-> FALSE, attempt_history |-> << >>,
      query_intent |-> "", business_type |-> "", trade_secret_handled |-> FALSE,
      augmentation_used |-> FALSE, augmentation_confidence |-> 0,
      best_partial_confidence |-> 0, attempt_confidences |-> << >>,
      augmentation_reasoning |-> NoReasoning ]

CommonKeys == {"query", "answer", "attempts", "model_confidence", "escalated", "evaluation_log",
               "query_intent", "business_type", "trade_secret_handled", "augmentation_used",
               "augmentation_confidence", "best_partial_confidence", "attempt_confidences",
               "augmentation_reasoning", "optimization_performance", "semantic_enhancement",
               "query_evolution"}

\* ask, lines 46-67: the response built from the final state
ask_response(final_state) ==
    [ keys |-> CommonKeys \cup {"attempt_history"},
      answer |-> final_state.final_answer,
      attempts |-> final_state.attempt_count,
      model_confidence |-> final_state.model_confidence,
      evaluation_log |-> final_state.evaluation_log,
      escalated |-> final_state.escalate,
      attempt_history |-> final_state.attempt_history,
      query_intent |-> final_state.query_intent,
      business_type |-> final_state.business_type,
      trade_secret_handled |-> final_state.requires_trade_secret_filter,
      augmentation_used |-> final_state.augmentation_used,
      augmentation_confidence |-> final_state.augmentation_confidence,
      best_partial_confidence |-> final_state.best_partial_confidence,
      attempt_confidences |-> final_state.attempt_confidences,
      augmentation_reasoning |-> final_state.augmentation_reasoning ]

\* faulty except branch: the response is not marked as escalated
ask_error_response_NotEscalated ==
    [ keys |-> CommonKeys,
      answer |-> Template("system_error"),
      attempts |-> 0,
      model_confidence |-> 0,
      evaluation_log |-> << LogEntry("system_error", 0, 0) >>,
      escalated |-> FALSE,
      attempt_history |-> << >>,
      query_intent |-> "error",
      business_type |-> "none",
      trade_secret_handled |-> FALSE,
      augmentation_used |-> FALSE,
      augmentation_confidence |-> 0,
      best_partial_confidence |-> 0,
      attempt_confidences |-> << >>,
      augmentation_reasoning |-> Reasoning("system_error", 0, 0) ]

\* ask, lines 74-93: the response of the except branch
ask_error_response ==
    [ keys |-> CommonKeys,
      answer |-> Template("system_error"),
      attempts |-> 0,
      model_confidence |-> 0,
      evaluation_log |-> << LogEntry("system_error", 0, 0) >>,
      escalated |-> TRUE,
      attempt_history |-> << >>,
      query_intent |-> "error",
      business_type |-> "none",
      trade_secret_handled |-> FALSE,
      augmentation_used |-> FALSE,
      augmentation_confidence |-> 0,
      best_partial_confidence |-> 0,
      attempt_confidences |-> << >>,
      augmentation_reasoning |-> Reasoning("system_error", 0, 0) ]

Nodes == {"initialize_evaluation", "analyze_query_intent", "handle_business_query",
          "check_trade_secrets", "execute_search_attempt", "enhanced_evaluate_content_quality",
          "gpt_augmentation_mode", "generate_evaluation_answer"}

NoCalls == [scorer |-> 0, second_pass |-> 0, augmentation |-> 0, answer |-> 0, intent |-> 0]

(* ------------------------- the agent between calls ---------------------- *)
\* number of calls of ask made on one agent
MaxCalls == 2

\* The deterministic stand-ins a test gives the agent: whether
\* DynamicQueryOptimizer() raises, the reply of detect_intent_with_llm, the
\* documents the retrieval returns for the query of the dynamic and of the
\* legacy reformulation, the scorer's reply per attempt, and what the
\* augmentation, second-pass and answer oracles do.
Stub(c, i, r, sc, au, sp, an) ==
    [ctor_raises |-> c, intent |-> i, retrieval |-> r, scorer |-> sc,
     augmentation |-> au, second_pass |-> sp, answer |-> an]

NoQuestion == [business |-> FALSE, production |-> FALSE, dosage |-> FALSE,
               problem |-> FALSE, support |-> FALSE]

NoStub ==
    Stub(FALSE, "other",
         [p \in {"dynamic", "legacy"} |-> [n \in 1..MAX_REASONING_ATTEMPTS |-> NoResults]],
         [n \in 1..MAX_REASONING_ATTEMPTS |-> Reply("malformed", 0)],
         GenerationRaises, Reply("malformed", 0), GenerationRaises)

\* The process right after EnhancedEvaluationRAGAgentV2(): both lazily created
\* optimizers are still None (intent_detection.py line 6, components.py line
\* 14), no call of ask has returned.  query and stub are the question and the
\* stand-ins the calls of ask are made with.
FreshAgent(q, stub) ==
    [intent_optimizer |-> FALSE, components_optimizer |-> FALSE,
     calls |-> 0, first |-> NoResponse, query |-> q, stub |-> stub]

\* faulty lazy creation: a failed construction is remembered as an instance
get_dynamic_optimizer_KeepsFailure(cached, ctor_raises) ==
    [instance |-> cached \/ ~ctor_raises, cached |-> TRUE]

\* get_dynamic_optimizer: the instance the caller gets (FALSE for None) and
\* whether the module global holds an instance afterwards
get_dynamic_optimizer(cached, ctor_raises) ==
    [instance |-> cached \/ ~ctor_raises, cached |-> cached \/ ~ctor_raises]

\* faulty lazy creation in the components object: a failed construction is
\* remembered as an instance
dynamic_optimizer_KeepsFailure(cached, ctor_raises) ==
    [instance |-> cached \/ ~ctor_raises, cached |-> TRUE]

\* the dynamic_optimizer property of the components object: the same lazy
\* creation on self._dynamic_optimizer
dynamic_optimizer(cached, ctor_raises) ==
    [instance |-> cached \/ ~ctor_raises, cached |-> cached \/ ~ctor_raises]

Paths == {"dynamic", "legacy"}

\* optimize_query_for_attempt: the dynamic reformulation when the optimizer
\* is there, the legacy one otherwise
optimize_query_for_attempt(instance) == IF instance THEN "dynamic" ELSE "legacy"

\* workflow.invoke with the stand-ins of agent a: the walk through the graph
\* from node with channel content s, every oracle and the retrieval answering
\* as a.stub says.  The result is the final state and the agent afterwards.
RECURSIVE invoke(_, _, _)
invoke(node, s, a) ==
    CASE node = "initialize_evaluation" ->
            invoke("analyze_query_intent", Commit(s, s, initialize_evaluation_v2(s)), a)
      [] node = "analyze_query_intent" ->
            LET general == PatternStage(s.original_query).intent = "general"
                opt == get_dynamic_optimizer(a.intent_optimizer, a.stub.ctor_raises)
                llm == IF opt.instance THEN a.stub.intent ELSE "unavailable"
                s2 == Commit(s, s, analyze_query_intent(s, llm))
                a2 == IF general THEN [a EXCEPT !.intent_optimizer = opt.cached] ELSE a
            IN invoke(business_or_trade_secrets(s2), s2, a2)
      [] node = "handle_business_query" ->
            [state |-> Commit(s, s, handle_business_query(s)), agent |-> a]
      [] node = "check_trade_secrets" ->
            [state |-> Commit(s, s, check_trade_secrets(s)), agent |-> a]
      [] node = "execute_search_attempt" ->
            LET opt == dynamic_optimizer(a.components_optimizer, a.stub.ctor_raises)
                path == optimize_query_for_attempt(opt.instance)
                results == a.stub.retrieval[path][s.attempt_count + 1]
                s2 == Commit(s, execute_search_attempt_mutation(s, results),
                             execute_search_attempt(s, results))
            IN invoke("enhanced_evaluate_content_quality", s2,
                      [a EXCEPT !.components_optimizer = opt.cached])
      [] node = "enhanced_evaluate_content_quality" ->
            LET reply == a.stub.scorer[s.attempt_count]
                s2 == Commit(s, enhanced_evaluate_mutation(s, reply),
                             enhanced_evaluate_content_quality_v2(s, reply))
            IN invoke(continue_augment_or_finish(s2), s2, a)
      [] node = "gpt_augmentation_mode" ->
            [state |-> Commit(s, s, gpt_augmentation_mode(s, a.stub.augmentation, a.stub.second_pass)),
             agent |-> a]
      [] node = "generate_evaluation_answer" ->
            [state |-> Commit(s, s, generate_evaluation_answer(s, a.stub.answer)), agent |-> a]

\* one node of the graph run on channel content s with the module globals and
\* stand-ins of a: the node that runs next ("END" after a final node), the
\* channel content and the module globals afterwards
run_node(node, s, a) ==
    CASE node = "initialize_evaluation" ->
            [next |-> "analyze_query_intent",
             state |-> Commit(s, s, initialize_evaluation_v2(s)), agent |-> a]
      [] node = "analyze_query_intent" ->
            LET general == PatternStage(s.original_query).intent = "general"
                opt == get_dynamic_optimizer(a.intent_optimizer, a.stub.ctor_raises)
                llm == IF opt.instance THEN a.stub.intent ELSE "unavailable"
                s2 == Commit(s, s, analyze_query_intent(s, llm))
            IN [next |-> business_or_trade_secrets(s2), state |-> s2,
                agent |-> IF general THEN [a EXCEPT !.intent_optimizer = opt.cached] ELSE a]
      [] node = "handle_business_query" ->
            [next |-> "END", state |-> Commit(s, s, handle_business_query(s)), agent |-> a]
      [] node = "check_trade_secrets" ->
            [next |-> "END", state |-> Commit(s, s, check_trade_secrets(s)), agent |-> a]
      [] node = "execute_search_attempt" ->
            LET opt == dynamic_optimizer(a.components_optimizer, a.stub.ctor_raises)
                path == optimize_query_for_attempt(opt.instance)
                results == a.stub.retrieval[path][s.attempt_count + 1]
            IN [next |-> "enhanced_evaluate_content_quality",
                state |-> Commit(s, execute_search_attempt_mutation(s, results),
                                 execute_search_attempt(s, results)),
                agent |-> [a EXCEPT !.components_optimizer = opt.cached]]
      [] node = "enhanced_evaluate_content_quality" ->
            LET reply == a.stub.scorer[s.attempt_count]
                s2 == Commit(s, enhanced_evaluate_mutation(s, reply),
                             enhanced_evaluate_content_quality_v2(s, reply))
            IN [next |-> continue_augment_or_finish(s2), state |-> s2, agent |-> a]
      [] node = "gpt_augmentation_mode" ->
            [next |-> "END",
             state |-> Commit(s, s, gpt_augmentation_mode(s, a.stub.augmentation, a.stub.second_pass)),
             agent |-> a]
      [] node = "generate_evaluation_answer" ->
            [next |-> "END",
             state |-> Commit(s, s, generate_evaluation_answer(s, a.stub.answer)), agent |-> a]

\* the calls of ask that are in progress at the same time in one process
SessionIds == {1, 2}

\* a call of ask: its question and stand-ins, where it is in the graph
\* ("idle" before the call, "END" after the last node, "returned" after ask
\* returned) and its own channel content
Session(q, stub) == [pc |-> "idle", state |-> initial_state(q), query |-> q, stub |-> stub]

NoSessions == [i \in SessionIds |-> Session(NoQuestion, NoStub)]

Init ==
    /\ pc = "idle"
    /\ state = initial_state(NoQuestion)
    /\ aliased \in BOOLEAN
    /\ response = NoResponse
    /\ raised = FALSE
    /\ retrieval_calls = 0
    /\ scorer_returns = << >>
    /\ executed = << >>
    /\ oracle_calls = NoCalls
    /\ agent = FreshAgent(NoQuestion, NoStub)
    /\ sessions = NoSessions

\* ask(user_query) up to workflow.invoke(initial_state): the input is written
\* to the channels like a node's return value
Ask ==
    /\ pc = "idle"
    /\ \E q \in Queries :
          state' = Commit(initial_state(q), initial_state(q), initial_state(q))
    /\ pc' = "initialize_evaluation"
    /\ UNCHANGED <<aliased, response, raised, retrieval_calls, scorer_returns, executed, oracle_calls, agent, sessions>>

InitializeEvaluation ==
    /\ pc = "initialize_evaluation"
    /\ state' = Commit(state, state, initialize_evaluation_v2(state))
    /\ pc' = "analyze_query_intent"
    /\ executed' = Append(executed, pc)
    /\ UNCHANGED <<aliased, response, raised, retrieval_calls, scorer_returns, oracle_calls, agent, sessions>>

\* the intent oracle is consulted only when no pattern table matched
AnalyzeQueryIntent ==
    /\ pc = "analyze_query_intent"
    /\ \E llm \in (IF PatternStage(state.original_query).intent = "general"
                   THEN LLMIntents ELSE {"unavailable"}) :
          /\ state' = Commit(state, state, analyze_query_intent(state, llm))
          /\ oracle_calls' =
                IF PatternStage(state.original_query).intent = "general" /\ llm # "unavailable"
                THEN [oracle_calls EXCEPT !.intent = @ + 1]
                ELSE oracle_calls
    /\ pc' = business_or_trade_secrets(state')
    /\ executed' = Append(executed, pc)
    /\ UNCHANGED <<aliased, response, raised, retrieval_calls, scorer_returns, agent, sessions>>

HandleBusinessQuery ==
    /\ pc = "handle_business_query"
    /\ state' = Commit(state, state, handle_business_query(state))
    /\ pc' = "END"
    /\ executed' = Append(executed, pc)
    /\ UNCHANGED <<aliased, response, raised, retrieval_calls, scorer_returns, oracle_calls, agent, sessions>>

CheckTradeSecrets ==
    /\ pc = "check_trade_secrets"
    /\ state' = Commit(state, state, check_trade_secrets(state))
    /\ pc' = "END"
    /\ executed' = Append(executed, pc)
    /\ UNCHANGED <<aliased, response, raised, retrieval_calls, scorer_returns, oracle_calls, agent, sessions>>

\* the optimizer is asked for variants only in multi-query mode
ExecuteSearchAttempt ==
    /\ pc = "execute_search_attempt"
    /\ \E service \in ServiceOutcomes :
       \E variants \in (IF search_strategies(state.attempt_count + 1).use_multi_query
                        THEN VariantOutcomes ELSE {"unavailable"}) :
          LET results == search_knowledge_enhanced(
                             search_strategies(state.attempt_count + 1).use_multi_query,
                             variants, service)
          IN state' = Commit(state, execute_search_attempt_mutation(state, results),
                             execute_search_attempt(state, results))
    /\ retrieval_calls' = retrieval_calls + 1
    /\ pc' = "enhanced_evaluate_content_quality"
    /\ executed' = Append(executed, pc)
    /\ UNCHANGED <<aliased, response, raised, scorer_returns, oracle_calls, agent, sessions>>

\* the scoring oracle is called only for a non-empty result list
EnhancedEvaluateContentQuality ==
    /\ pc = "enhanced_evaluate_content_quality"
    /\ \E reply \in (IF state.search_results = NoResults THEN {Reply("malformed", 0)} ELSE Replies) :
          /\ state' = Commit(state, enhanced_evaluate_mutation(state, reply),
                             enhanced_evaluate_content_quality_v2(state, reply))
          /\ scorer_returns' =
                Append(scorer_returns, evaluate_content_quality(state.search_results, reply).confidence)
    /\ oracle_calls' = IF state.search_results = NoResults THEN oracle_calls
                       ELSE [oracle_calls EXCEPT !.scorer = @ + 1]
    /\ pc' = continue_augment_or_finish(state')
    /\ executed' = Append(executed, pc)
    /\ UNCHANGED <<aliased, response, raised, retrieval_calls, agent, sessions>>

\* the second-pass oracle is called only when the generation did not raise
GptAugmentationMode ==
    /\ pc = "gpt_augmentation_mode"
    /\ ~state.best_partial_result.isNone
    /\ \E gen \in Generations :
          \E reply \in (IF gen.raises THEN {Reply("malformed", 0)} ELSE Replies) :
             /\ state' = Commit(state, state, gpt_augmentation_mode(state, gen, reply))
             /\ oracle_calls' = [oracle_calls EXCEPT !.augmentation = @ + 1,
                                                     !.second_pass = IF gen.raises THEN @ ELSE @ + 1]
    /\ pc' = "END"
    /\ executed' = Append(executed, pc)
    /\ UNCHANGED <<aliased, response, raised, retrieval_calls, scorer_returns, agent, sessions>>

\* the generation oracle is called only when the state is not escalated
GenerateEvaluationAnswer ==
    /\ pc = "generate_evaluation_answer"
    /\ \E gen \in (IF state.escalate THEN {Generation(NoBody)} ELSE AnswerGenerations) :
          state' = Commit(state, state, generate_evaluation_answer(state, gen))
    /\ oracle_calls' = IF state.escalate THEN oracle_calls ELSE [oracle_calls EXCEPT !.answer = @ + 1]
    /\ pc' = "END"
    /\ executed' = Append(executed, pc)
    /\ UNCHANGED <<aliased, response, raised, retrieval_calls, scorer_returns, agent, sessions>>

\* ask, lines 43-72: invoke returned, the response is assembled and returned
AskReturn ==
    /\ pc = "END"
    /\ response' = ask_response(state)
    /\ pc' = "returned"
    /\ UNCHANGED <<state, aliased, raised, retrieval_calls, scorer_returns, executed, oracle_calls, agent, sessions>>

\* ask, lines 42 and 74-93: an exception leaves workflow.invoke or the assembly
\* of the response (anything a node does not catch itself; gpt_augmentation_mode
\* reads best_partial_result outside its try block) and the except branch
\* returns the error response
AskExcept ==
    /\ pc \in Nodes \cup {"END"}
    /\ raised' = TRUE
    /\ response' = ask_error_response
    /\ pc' = "returned"
    /\ UNCHANGED <<state, aliased, retrieval_calls, scorer_returns, executed, oracle_calls, agent, sessions>>

Next ==
    \/ Ask
    \/ InitializeEvaluation
    \/ AnalyzeQueryIntent
    \/ HandleBusinessQuery
    \/ CheckTradeSecrets
    \/ ExecuteSearchAttempt
    \/ EnhancedEvaluateContentQuality
    \/ GptAugmentationMode
    \/ GenerateEvaluationAnswer
    \/ AskReturn
    \/ AskExcept

Spec == Init /\ [][Next]_vars

\* ask runs to completion: Python executes the session without interruption
FairSpec == Spec /\ WF_vars(Next)

TypeOK ==
    /\ pc \in Nodes \cup {"idle", "END", "returned"}
    /\ state.attempt_count \in 0..MAX_REASONING_ATTEMPTS

(* ------------------ repeated calls on one agent ------------------------ *)
\* questions that hit at most one keyword table
StubQueries ==
    {q \in Queries :
        Cardinality({f \in {"business", "production", "dosage", "problem", "support"} : q[f]}) <= 1}

\* what a stand-in retrieval returns on attempts 1, 2, 3
StubRetrievalPlans == {<<NoResults, NoResults, NoResults>>, <<1, 1, 1>>, <<NoResults, NoResults, 1>>}

StubReplies == {Reply("malformed", 0), Reply("number", MaxReply)}

StubGenerations ==
    {GenerationRaises, Generation(Body(SAFETY_MIN_LEN, TRUE, TRUE, TRUE, SAFETY_MIN_NEWLINES))}

Stubs ==
    {Stub(c, i, r, sc, au, sp, an) :
        c \in BOOLEAN, i \in {"technical", "raise"},
        r \in [Paths -> StubRetrievalPlans],
        sc \in [1..MAX_REASONING_ATTEMPTS -> StubReplies],
        au \in StubGenerations, sp \in StubReplies, an \in StubGenerations}

\* a fresh agent, a question and a fixed set of stand-ins
TwoCallInit ==
    /\ pc = "idle"
    /\ state = initial_state(NoQuestion)
    /\ aliased \in BOOLEAN
    /\ response = NoResponse
    /\ raised = FALSE
    /\ retrieval_calls = 0
    /\ scorer_returns = << >>
    /\ executed = << >>
    /\ oracle_calls = NoCalls
    /\ agent \in {FreshAgent(q, stub) : q \in StubQueries, stub \in Stubs}
    /\ sessions = NoSessions

\* one whole call ask(agent.query): the initial state of lines 14-40, the
\* workflow run on it, the response of lines 46-67; the optimizers created
\* during the call stay with the process
AskCall ==
    LET q == agent.query
        run == invoke("initialize_evaluation",
                      Commit(initial_state(q), initial_state(q), initial_state(q)), agent)
    IN /\ state' = run.state
       /\ response' = ask_response(run.state)
       /\ agent' = [run.agent EXCEPT !.calls = @ + 1,
                                     !.first = IF agent.calls = 0 THEN ask_response(run.state) ELSE @]
       /\ pc' = "returned"
       /\ UNCHANGED <<aliased, raised, retrieval_calls, scorer_returns, executed, oracle_calls, sessions>>

FirstAsk ==
    /\ pc = "idle"
    /\ agent.calls = 0
    /\ AskCall

AskAgain ==
    /\ pc = "returned"
    /\ agent.calls >= 1
    /\ agent.calls < MaxCalls
    /\ AskCall

TwoCallNext ==
    \/ FirstAsk
    \/ AskAgain

TwoCallSpec == TwoCallInit /\ [][TwoCallNext]_vars

(* ----------------- calls of ask running at the same time --------------- *)
ConcurrentQueries ==
    {NoQuestion, [NoQuestion EXCEPT !.dosage = TRUE], [NoQuestion EXCEPT !.support = TRUE]}

\* stand-in retrievals whose documents depend on the reformulation path
ConcurrentRetrievals ==
    {[p \in Paths |-> IF p = "dynamic" THEN <<1, 1, 1>> ELSE <<NoResults, NoResults, 1>>],
     [p \in Paths |-> IF p = "dynamic" THEN <<NoResults, NoResults, NoResults>> ELSE <<1, 1, 1>>]}

\* scorer stand-ins: 5.0 on every attempt, accepted at once, accepted at 3
ConcurrentScorers ==
    {[n \in 1..MAX_REASONING_ATTEMPTS |-> Reply("malformed", 0)],
     [n \in 1..MAX_REASONING_ATTEMPTS |-> Reply("number", MaxReply)],
     [n \in 1..MAX_REASONING_ATTEMPTS |->
         IF n = MAX_REASONING_ATTEMPTS THEN Reply("number", MaxReply) ELSE Reply("malformed", 0)]}

\* DynamicQueryOptimizer() behaves the same for every caller in the process;
\* everything else is the session's own
ConcurrentStubs(ctor_raises) ==
    {Stub(ctor_raises, "setup", r, sc,
          Generation(Body(SAFETY_MIN_LEN, TRUE, TRUE, TRUE, SAFETY_MIN_NEWLINES)),
          Reply("number", MaxReply),
          Generation(Body(SAFETY_MIN_LEN, TRUE, TRUE, TRUE, SAFETY_MIN_NEWLINES))) :
        r \in ConcurrentRetrievals, sc \in ConcurrentScorers}

\* a fresh process and the calls of ask that will be made in it
ConcurrentInit ==
    /\ pc = "idle"
    /\ state = initial_state(NoQuestion)
    /\ aliased \in BOOLEAN
    /\ response = NoResponse
    /\ raised = FALSE
    /\ retrieval_calls = 0
    /\ scorer_returns = << >>
    /\ executed = << >>
    /\ oracle_calls = NoCalls
    /\ agent = FreshAgent(NoQuestion, NoStub)
    /\ \E ctor_raises \in BOOLEAN :
          sessions \in [SessionIds ->
                          {Session(q, stub) : q \in ConcurrentQueries,
                                              stub \in ConcurrentStubs(ctor_raises)}]

\* ask, lines 14-42: the call builds its own initial state and hands it to
\* workflow.invoke
SessionAsk ==
    \E i \in SessionIds :
       /\ sessions[i].pc = "idle"
       /\ sessions' = [sessions EXCEPT
                          ![i].pc = "initialize_evaluation",
                          ![i].state = Commit(initial_state(sessions[i].query),
                                              initial_state(sessions[i].query),
                                              initial_state(sessions[i].query))]
       /\ UNCHANGED <<pc, state, aliased, response, raised, retrieval_calls, scorer_returns,
                      executed, oracle_calls, agent>>

\* one session runs its next node; the node sees the session's own channels
\* and stand-ins and the optimizers held by the process
SessionNode ==
    \E i \in SessionIds :
       /\ sessions[i].pc \in Nodes
       /\ LET r == run_node(sessions[i].pc, sessions[i].state,
                            [agent EXCEPT !.stub = sessions[i].stub])
          IN /\ sessions' = [sessions EXCEPT ![i].pc = r.next, ![i].state = r.state]
             /\ agent' = [agent EXCEPT !.intent_optimizer = r.agent.intent_optimizer,
                                       !.components_optimizer = r.agent.components_optimizer]
       /\ UNCHANGED <<pc, state, aliased, response, raised, retrieval_calls, scorer_returns,
                      executed, oracle_calls>>

\* ask, lines 43-72: the call returns
SessionReturn ==
    \E i \in SessionIds :
       /\ sessions[i].pc = "END"
       /\ sessions' = [sessions EXCEPT ![i].pc = "returned"]
       /\ agent' = [agent EXCEPT !.calls = @ + 1]
       /\ UNCHANGED <<pc, state, aliased, response, raised, retrieval_calls, scorer_returns,
                      executed, oracle_calls>>

ConcurrentNext ==
    \/ SessionAsk
    \/ SessionNode
    \/ SessionReturn

ConcurrentSpec == ConcurrentInit /\ [][ConcurrentNext]_vars

(* --------------------- retrieval scores and the scorer ------------------ *)
\* number of different pinecone_score assignments a document list can come with
NumScores == 2

\* search_knowledge, lines 42-57: the result list holding the documents of set
\* docs (title, full_content, content_type, ...) with the k-th assignment of
\* pinecone_score; with k = 0 it is the list the plain sessions retrieve
ScoredResults(docs, k) == IF docs = NoResults THEN NoResults ELSE docs + NumDocSets * k

\* the titles, types and contents of a result list, in order: what is left of
\* it when pinecone_score is dropped
Documents(results) ==
    IF results = NoResults THEN NoResults ELSE ((results - 1) % NumDocSets) + 1

\* faulty prompt: the whole result dicts, scores included, are shown
evaluation_prompt_WithScores(results) == results

\* evaluate_content_quality, lines 233-240: the context the scoring oracle is
\* shown is built from title, content_type and full_content of the results
evaluation_prompt(results) == Documents(results)

\* every prompt context a scoring oracle can be shown
PromptContexts == 1..(NumDocSets * NumScores)

\* scoring oracles as functions of the prompt: "CONFIDENCE: MaxReply" for one
\* context, a reply without the pattern for every other
ScoringOracles ==
    {[p \in PromptContexts |-> IF p = h THEN Reply("number", MaxReply) ELSE Reply("malformed", 0)] :
        h \in PromptContexts}

\* the stand-ins of a session whose retrieval returns the documents plan[n]
\* with score assignment scores[n] on attempt n, and whose scoring oracle is
\* oracle
ScoredStub(plan, scores, oracle) ==
    Stub(FALSE, "setup",
         [p \in Paths |-> [n \in 1..MAX_REASONING_ATTEMPTS |-> ScoredResults(plan[n], scores[n])]],
         [n \in 1..MAX_REASONING_ATTEMPTS |->
             IF plan[n] = NoResults THEN Reply("malformed", 0)
             ELSE oracle[evaluation_prompt(ScoredResults(plan[n], scores[n]))]],
         Generation(Body(SAFETY_MIN_LEN, TRUE, TRUE, TRUE, SAFETY_MIN_NEWLINES)),
         Reply("number", MaxReply),
         Generation(Body(SAFETY_MIN_LEN, TRUE, TRUE, TRUE, SAFETY_MIN_NEWLINES)))

\* two sessions with the same question and the same scoring oracle that are
\* given the same documents on every attempt; session 1 gets them with the
\* score assignment 0, session 2 with any
ScoreInit ==
    /\ pc = "idle"
    /\ state = initial_state(NoQuestion)
    /\ aliased \in BOOLEAN
    /\ response = NoResponse
    /\ raised = FALSE
    /\ retrieval_calls = 0
    /\ scorer_returns = << >>
    /\ executed = << >>
    /\ oracle_calls = NoCalls
    /\ agent = FreshAgent(NoQuestion, NoStub)
    /\ \E q \in {NoQuestion, [NoQuestion EXCEPT !.dosage = TRUE]} :
       \E plan \in [1..MAX_REASONING_ATTEMPTS -> ResultSets] :
       \E scores \in [1..MAX_REASONING_ATTEMPTS -> 0..(NumScores - 1)] :
       \E oracle \in ScoringOracles :
          sessions = [i \in SessionIds |->
                        Session(q, ScoredStub(plan,
                                              IF i = 1 THEN [n \in 1..MAX_REASONING_ATTEMPTS |-> 0]
                                              ELSE scores,
                                              oracle))]

\* both calls of ask are made
PairAsk ==
    /\ \A i \in SessionIds : sessions[i].pc = "idle"
    /\ sessions' = [i \in SessionIds |->
                      [sessions[i] EXCEPT
                          !.pc = "initialize_evaluation",
                          !.state = Commit(initial_state(sessions[i].query),
                                           initial_state(sessions[i].query),
                                           initial_state(sessions[i].query))]]
    /\ UNCHANGED <<pc, state, aliased, response, raised, retrieval_calls, scorer_returns,
                   executed, oracle_calls, agent>>

\* each session that has not reached END runs its next node
PairNode ==
    /\ \E i \in SessionIds : sessions[i].pc \in Nodes
    /\ sessions' = [i \in SessionIds |->
                      IF sessions[i].pc \in Nodes
                      THEN LET r == run_node(sessions[i].pc, sessions[i].state,
                                             FreshAgent(sessions[i].query, sessions[i].stub))
                           IN [sessions[i] EXCEPT !.pc = r.next, !.state = r.state]
                      ELSE sessions[i]]
    /\ UNCHANGED <<pc, state, aliased, response, raised, retrieval_calls, scorer_returns,
                   executed, oracle_calls, agent>>

\* both calls of ask return
PairReturn ==
    /\ \A i \in SessionIds : sessions[i].pc = "END"
    /\ sessions' = [i \in SessionIds |-> [sessions[i] EXCEPT !.pc = "returned"]]
    /\ UNCHANGED <<pc, state, aliased, response, raised, retrieval_calls, scorer_returns,
                   executed, oracle_calls, agent>>

ScoreNext ==
    \/ PairAsk
    \/ PairNode
    \/ PairReturn

ScoreSpec == ScoreInit /\ [][ScoreNext]_vars

(* ------------------------ parsing oracle replies ------------------------ *)
\* the largest n of a reply "CONFIDENCE: n" given to the two parsers
MaxParsed == 10

ParseReplies ==
    {Reply("raise", 0), Reply("malformed", 0)} \cup {Reply("number", n) : n \in 0..MaxParsed}

\* a result list, a reply of the scoring oracle and a reply of the second-pass
\* oracle; nothing has been parsed
ParseInit ==
    /\ pc = "idle"
    /\ state = initial_state(NoQuestion)
    /\ aliased = FALSE
    /\ response = NoResponse
    /\ raised = FALSE
    /\ retrieval_calls = 0
    /\ scorer_returns = << >>
    /\ executed = << >>
    /\ oracle_calls = NoCalls
    /\ \E results \in ResultSets : \E reply \in ParseReplies : \E second \in ParseReplies :
          agent = FreshAgent(NoQuestion,
                             Stub(FALSE, "other",
                                  [p \in Paths |-> [n \in 1..MAX_REASONING_ATTEMPTS |-> results]],
                                  [n \in 1..MAX_REASONING_ATTEMPTS |-> reply],
                                  GenerationRaises, second, GenerationRaises))
    /\ sessions = NoSessions

\* components.evaluate_content_quality is called on the result list
ScoreDocuments ==
    /\ pc = "idle"
    /\ LET results == agent.stub.retrieval["dynamic"][1]
           r == evaluate_content_quality(results, agent.stub.scorer[1])
       IN /\ state' = [state EXCEPT !.search_results = results, !.model_confidence = r.confidence]
          /\ scorer_returns' = << r.confidence >>
          /\ oracle_calls' = IF results = NoResults THEN oracle_calls
                             ELSE [oracle_calls EXCEPT !.scorer = @ + 1]
    /\ pc' = "scored"
    /\ UNCHANGED <<aliased, response, raised, retrieval_calls, executed, agent, sessions>>

\* evaluate_augmented_response is called
ScoreSecondPass ==
    /\ pc = "scored"
    /\ state' = [state EXCEPT !.augmentation_confidence =
                                  evaluate_augmented_response(agent.stub.second_pass).confidence]
    /\ oracle_calls' = [oracle_calls EXCEPT !.second_pass = @ + 1]
    /\ pc' = "returned"
    /\ UNCHANGED <<aliased, response, raised, retrieval_calls, scorer_returns, executed, agent, sessions>>

ParseNext ==
    \/ ScoreDocuments
    \/ ScoreSecondPass

ParseSpec == ParseInit /\ [][ParseNext]_vars

(* ============================ properties =============================== *)

RECURSIVE SeqMax(_)
SeqMax(q) == IF Len(q) = 0 THEN 0
             ELSE LET m == SeqMax(Tail(q)) IN IF Head(q) > m THEN Head(q) ELSE m

Logged(kind) == \E i \in DOMAIN state.evaluation_log : state.evaluation_log[i].kind = kind

\* C1: attempt_count stays between 0 and MAX_REASONING_ATTEMPTS, and the search
\* node is never about to run with attempt_count already at the maximum.
C1_AttemptCountBounded ==
    /\ state.attempt_count \in 0..MAX_REASONING_ATTEMPTS
    /\ pc = "execute_search_attempt" => state.attempt_count < MAX_REASONING_ATTEMPTS

C1_Witness ==
    /\ pc = "enhanced_evaluate_content_quality"
    /\ state.attempt_count = MAX_REASONING_ATTEMPTS

\* C2: every session ends: the workflow reaches END (or an exception hands the
\* session to the except branch of ask), and at no point have more than
\* MAX_REASONING_ATTEMPTS retrievals or evaluations been made.
C2_Terminates ==
    /\ <>(pc = "END" \/ raised)
    /\ <>(pc = "returned")
    /\ [](retrieval_calls <= MAX_REASONING_ATTEMPTS /\ Len(scorer_returns) <= MAX_REASONING_ATTEMPTS)

C2_Witness ==
    /\ pc = "END"
    /\ ~raised
    /\ retrieval_calls = MAX_REASONING_ATTEMPTS
    /\ Len(scorer_returns) = MAX_REASONING_ATTEMPTS

\* C3 (as claimed): when the workflow reaches END final_answer is a non-empty
\* text, and the answer ask returns is never empty.
C3_AnswerNonEmpty ==
    /\ pc = "END" => NonEmpty(state.final_answer)
    /\ pc = "returned" => NonEmpty(response.answer)

\* C4 (as claimed): a session that ends with escalate=true after the loop, without
\* a failed answer generation, returns the fixed escalation template.
C4_EscalationTemplate ==
    (/\ pc = "returned"
     /\ ~raised
     /\ response.escalated
     /\ response.attempts = MAX_REASONING_ATTEMPTS
     /\ oracle_calls.answer = 0)
    => response.answer = Template("escalation")

\* C5 (as claimed): a session whose intent is dosage never ends with
\* escalated=true.
C5_DosageNeverEscalated ==
    (pc = "returned" /\ ~raised /\ response.query_intent = "dosage") => ~response.escalated

PassThroughKinds == {"partnership", "technical_support", "trade_secret", "dosage_fallback", "augmented"}

\* C6 (as claimed): a final answer written by a short-circuit, by the dosage
\* fallback or by a successful augmentation is never replaced by a later stage,
\* and it is the answer ask returns.
C6_FinalTextPassesThrough ==
    [][/\ state.final_answer.kind \in PassThroughKinds => state'.final_answer = state.final_answer
       /\ (pc = "END" /\ pc' = "returned" /\ ~raised' /\ Logged("dosage_fallback"))
             => response'.answer = Template("dosage_fallback")]_vars

\* C7: in a session classified as business or production no retrieval is ever
\* made and attempt_count is 0 at END (and in the response of ask).
C7_NoRetrievalForBusinessOrProduction ==
    state.query_intent \in {"business", "production"} =>
        /\ retrieval_calls = 0
        /\ state.attempt_count = 0
        /\ pc \notin {"execute_search_attempt", "enhanced_evaluate_content_quality",
                      "gpt_augmentation_mode", "generate_evaluation_answer"}
        /\ (pc = "returned" /\ ~raised) => response.attempts = 0

C7_Witness ==
    /\ pc = "END"
    /\ state.query_intent = "production"
    /\ state.final_answer = Template("trade_secret")

\* C8: an exception raised while the workflow runs or while the response is
\* assembled ends in the except branch of ask: ask returns a response with all
\* the keys of the interface, escalated=true, attempts=0 and an error entry as
\* its evaluation_log.
C8_ExceptionBecomesResponse ==
    raised =>
        /\ pc = "returned"
        /\ CommonKeys \subseteq response.keys
        /\ response.escalated
        /\ response.attempts = 0
        /\ response.evaluation_log = << LogEntry("system_error", 0, 0) >>
        /\ NonEmpty(response.answer)

C8_Witness ==
    /\ raised
    /\ state.attempt_count = 2
    /\ response.attempts = 0

\* C9: whenever best_partial_result is set, best_partial_confidence is the
\* maximum of the confidences the scorer has returned so far in the session.
C9_BestPartialIsMax ==
    ~state.best_partial_result.isNone =>
        /\ state.best_partial_confidence = SeqMax(scorer_returns)
        /\ state.best_partial_result.confidence = SeqMax(scorer_returns)

\* the best partial is from attempt 2, attempt 3 scored lower and the dosage
\* fallback fired on it
C9_Witness ==
    /\ Len(scorer_returns) = 3
    /\ scorer_returns[1] < scorer_returns[2]
    /\ scorer_returns[3] < scorer_returns[2]
    /\ state.best_partial_result.attempt = 2
    /\ Logged("dosage_fallback")

\* C10: best_partial_confidence never decreases, and best_partial_result is
\* replaced only by the evaluation of an attempt whose confidence is at least
\* 5.0 and strictly greater than the best so far.
C10_BestPartialMonotone ==
    [][/\ state'.best_partial_confidence >= state.best_partial_confidence
       /\ state'.best_partial_result # state.best_partial_result =>
             /\ pc = "enhanced_evaluate_content_quality"
             /\ state'.best_partial_result.confidence >= PARTIAL_FLOOR
             /\ state'.best_partial_result.confidence > state.best_partial_confidence
             /\ state'.best_partial_result.confidence = scorer_returns'[Len(scorer_returns')]
             /\ state'.best_partial_result.attempt = state.attempt_count]_vars

\* two attempts tied at a usable confidence and the first is kept
C10_Witness ==
    /\ Len(scorer_returns) >= 2
    /\ scorer_returns[1] >= PARTIAL_FLOOR
    /\ scorer_returns[2] = scorer_returns[1]
    /\ state.best_partial_result.attempt = 1
    /\ state.best_partial_result.results # state.search_results

Executed(node) == \E i \in DOMAIN executed : executed[i] = node

\* C11: best_partial_result, best_partial_confidence and has_usable_partial
\* change only in a step of the evaluation node; the search node, the
\* augmentation stage, the answer synthesizer (and every other step) leave all
\* three as they were.
C11_OnlyEvaluationWritesPartial ==
    [][(\/ state'.best_partial_result # state.best_partial_result
        \/ state'.best_partial_confidence # state.best_partial_confidence
        \/ state'.has_usable_partial # state.has_usable_partial)
       => pc = "enhanced_evaluate_content_quality"]_vars

\* a session that kept its memo through two more searches and the
\* augmentation stage
C11_Witness ==
    /\ pc = "END"
    /\ Executed("gpt_augmentation_mode")
    /\ state.has_usable_partial
    /\ state.best_partial_result.attempt = 1
    /\ state.best_partial_confidence = state.best_partial_result.confidence

\* C12: in a session classified as business, dosage or production
\* use_augmentation is never set, the augmentation stage is never entered and
\* its oracles are never called, whatever best partial the session holds.
C12_ProtectedNeverAugmented ==
    state.query_intent \in protected_intents =>
        /\ ~state.use_augmentation
        /\ pc # "gpt_augmentation_mode"
        /\ ~Executed("gpt_augmentation_mode")
        /\ oracle_calls.augmentation = 0
        /\ oracle_calls.second_pass = 0
        /\ ~state.augmentation_used

\* a dosage session exhausted its attempts below the threshold while holding
\* a best partial of at least 5.0
C12_Witness ==
    /\ state.query_intent = "dosage"
    /\ state.attempt_count = MAX_REASONING_ATTEMPTS
    /\ Len(scorer_returns) = MAX_REASONING_ATTEMPTS
    /\ scorer_returns[MAX_REASONING_ATTEMPTS] < state.confidence_threshold_override
    /\ state.has_usable_partial
    /\ state.best_partial_confidence >= PARTIAL_FLOOR
    /\ pc = "END"

\* the evaluation of attempt 3 has been made and was below the threshold
ExhaustedBelowThreshold ==
    /\ Len(scorer_returns) = MAX_REASONING_ATTEMPTS
    /\ scorer_returns[MAX_REASONING_ATTEMPTS] < state.confidence_threshold_override

\* the conditions of C13: exhausted below the threshold, a best partial of at
\* least 5.0, and an intent that is not protected
AugmentationConditions ==
    /\ ExhaustedBelowThreshold
    /\ ~state.best_partial_result.isNone
    /\ state.has_usable_partial
    /\ state.best_partial_confidence >= PARTIAL_FLOOR
    /\ state.query_intent \notin protected_intents

AugmentationEntered == pc = "gpt_augmentation_mode" \/ Executed("gpt_augmentation_mode")

NoAugmentationCall == oracle_calls.augmentation = 0 /\ oracle_calls.second_pass = 0

\* C13 (as claimed): the augmentation stage is entered exactly when the
\* evaluation of attempt 3 is below the threshold, a best partial of at least
\* 5.0 exists and the intent is not protected; every session exhausted below
\* the threshold that does not meet the conditions is at END with escalate=true
\* and without a call of an augmentation oracle.
C13_AsClaimed ==
    /\ ~raised => (AugmentationEntered <=> AugmentationConditions)
    /\ (pc = "END" /\ ExhaustedBelowThreshold /\ ~AugmentationConditions) =>
          (state.escalate /\ NoAugmentationCall)

\* C13 (amended): the augmentation stage is entered exactly under the three
\* conditions; a session exhausted below the threshold that does not meet them
\* and whose intent is not dosage is at END with escalate=true and without a
\* call of an augmentation oracle; a dosage session exhausted below the
\* threshold took the dosage fallback instead, also without such a call.
C13_AugmentationEntry ==
    /\ ~raised => (AugmentationEntered <=> AugmentationConditions)
    /\ (pc = "END" /\ ExhaustedBelowThreshold /\ ~AugmentationConditions) =>
          /\ NoAugmentationCall
          /\ state.query_intent # "dosage" => (state.escalate /\ Logged("escalating"))
          /\ state.query_intent = "dosage" => Logged("dosage_fallback")

\* exhausted with nothing usable: escalated, no augmentation oracle was called
C13_Witness ==
    /\ pc = "END"
    /\ ExhaustedBelowThreshold
    /\ state.query_intent = "troubleshooting"
    /\ ~state.has_usable_partial
    /\ state.escalate
    /\ NoAugmentationCall
    /\ state.final_answer = Template("escalation")

\* the four safety checks as C14 lists them
FourChecksPass(body) ==
    /\ body.len >= SAFETY_MIN_LEN
    /\ body.len <= SAFETY_MAX_LEN
    /\ body.contact
    /\ body.foundation
    /\ body.nl >= SAFETY_MIN_NEWLINES

\* the step of the augmentation stage from s to t is the one the stage takes
\* when the generation oracle does gen and the second-pass oracle replies reply
\* (read off the keys the stage assigns and the log entry it adds; the other
\* keys are handed on as they are)
AugmentationStepWith(s, t, gen, reply) ==
    LET r == gpt_augmentation_mode(s, gen, reply)
    IN /\ t.final_answer = r.final_answer
       /\ t.model_confidence = r.model_confidence
       /\ t.escalate = r.escalate
       /\ t.should_continue = r.should_continue
       /\ t.augmentation_used = r.augmentation_used
       /\ t.augmentation_confidence = r.augmentation_confidence
       /\ t.augmentation_reasoning = r.augmentation_reasoning
       /\ t.evaluation_log[Len(t.evaluation_log)] = r.evaluation_log[1]

\* C14: whatever the two oracles of the augmentation stage return, the stage
\* ends with augmentation_used=true, escalate=false, the generated text as
\* final_answer and the second-pass confidence as model_confidence exactly when
\* that confidence is at least 7.0 and the text passes all four safety checks;
\* otherwise it ends with escalate=true and augmentation_used=false.
C14_AugmentationOutcome ==
    [][(pc = "gpt_augmentation_mode" /\ pc' = "END") =>
         \A gen \in Generations : \A reply \in Replies :
            AugmentationStepWith(state, state', gen, reply) =>
               LET second == evaluate_augmented_response(reply).confidence
                   promoted == /\ ~gen.raises
                               /\ second >= AUGMENT_ACCEPT
                               /\ FourChecksPass(gen.body)
               IN IF promoted
                  THEN /\ state'.augmentation_used
                       /\ ~state'.escalate
                       /\ state'.final_answer = Text("augmented", gen.body, FALSE)
                       /\ state'.model_confidence = second
                  ELSE /\ state'.escalate
                       /\ ~state'.augmentation_used]_vars

\* a promoted augmentation with a text of the greatest allowed length
C14_Witness ==
    /\ pc = "END"
    /\ state.augmentation_used
    /\ ~state.escalate
    /\ state.final_answer.kind = "augmented"
    /\ state.final_answer.body.len = SAFETY_MAX_LEN
    /\ state.model_confidence = AUGMENT_ACCEPT

\* C15: when the generation oracle or the second-pass oracle raises during the
\* augmentation stage, the stage still returns (the workflow reaches END, no
\* exception is handed to ask) with escalate=true and augmentation_used=false,
\* and ask returns that state as an ordinary response.
C15_AugmentationErrorsHandled ==
    [][/\ (pc = "gpt_augmentation_mode" /\ pc' = "END") =>
            \A gen \in Generations : \A reply \in Replies :
               (/\ gen.raises \/ reply.kind = "raise"
                /\ AugmentationStepWith(state, state', gen, reply)) =>
                  /\ state'.escalate
                  /\ ~state'.augmentation_used
                  /\ ~raised'
       /\ (pc = "END" /\ pc' = "returned" /\ ~raised' /\ Logged("augmentation_error")) =>
            /\ response'.escalated
            /\ ~response'.augmentation_used
            /\ "attempt_history" \in response'.keys]_vars

\* the generation oracle raised, the second pass was never asked, and ask
\* returned the escalated state
C15_Witness ==
    /\ pc = "returned"
    /\ ~raised
    /\ Logged("augmentation_error")
    /\ oracle_calls.augmentation = 1
    /\ oracle_calls.second_pass = 0
    /\ response.escalated

\* the latest evaluation of the session reached the session threshold
LastAttemptAccepted ==
    /\ Len(scorer_returns) >= 1
    /\ scorer_returns[Len(scorer_returns)] >= state.confidence_threshold_override

\* C16: the loop stops at the first attempt whose confidence reaches the
\* session threshold: every earlier attempt was below it, no retrieval follows
\* it, the session goes to the answer synthesizer, ask reports that attempt's
\* index as attempts and its confidence as model_confidence, and with a
\* generated answer the response has escalated=false.
C16_AcceptAtFirstAdequateAttempt ==
    /\ \A i \in 1..(Len(scorer_returns) - 1) :
          scorer_returns[i] < state.confidence_threshold_override
    /\ LastAttemptAccepted =>
          /\ retrieval_calls = Len(scorer_returns)
          /\ state.attempt_count = Len(scorer_returns)
          /\ pc \in {"generate_evaluation_answer", "END", "returned"}
          /\ ~AugmentationEntered
    /\ (LastAttemptAccepted /\ pc = "returned" /\ ~raised) =>
          /\ response.attempts = Len(scorer_returns)
          /\ response.model_confidence = scorer_returns[Len(scorer_returns)]
          /\ response.answer.kind = "generated" => ~response.escalated

\* nothing retrieved on attempts 1 and 2 (confidence 0.0), an adequate set on
\* attempt 3 under the threshold 6.5 of a troubleshooting session
C16_Witness ==
    /\ pc = "returned"
    /\ ~raised
    /\ Len(scorer_returns) = 3
    /\ scorer_returns[1] = 0
    /\ scorer_returns[2] = 0
    /\ scorer_returns[3] >= 65
    /\ state.confidence_threshold_override = 65
    /\ response.query_intent = "troubleshooting"
    /\ response.attempts = 3
    /\ response.model_confidence = scorer_returns[3]
    /\ ~response.escalated

\* C17 (as claimed): in a dosage session whose three attempts all stay below
\* the threshold the dosage fallback fires at attempt 3 and only there, never
\* through the eligibility check, and ask reports attempts=3,
\* model_confidence=7.0 and escalated=false.
C17_DosageFallbackAtExhaustion ==
    /\ Logged("dosage_fallback") =>
          /\ state.query_intent = "dosage"
          /\ ExhaustedBelowThreshold
          /\ ~Logged("escalating")
          /\ ~Logged("triggering_augmentation")
    /\ (state.query_intent = "dosage" /\ ExhaustedBelowThreshold) => Logged("dosage_fallback")
    /\ (/\ pc = "returned"
        /\ ~raised
        /\ response.query_intent = "dosage"
        /\ ExhaustedBelowThreshold) =>
          /\ response.attempts = MAX_REASONING_ATTEMPTS
          /\ response.model_confidence = DOSAGE_FALLBACK_CONFIDENCE
          /\ ~response.escalated

\* the terminal outcomes of spec 4.6-4.8, read from the state at END
TerminalOutcomes == {"answered_directly", "dosage_fallback", "trade_secret_direct",
                     "business_direct", "augmented", "escalated"}

HasOutcome(o) ==
    CASE o = "answered_directly" -> Logged("evaluation") /\ ~state.escalate
      [] o = "dosage_fallback" -> Logged("dosage_fallback")
      [] o = "trade_secret_direct" -> Executed("check_trade_secrets")
      [] o = "business_direct" -> Executed("handle_business_query")
      [] o = "augmented" -> state.augmentation_used
      [] o = "escalated" -> state.escalate

\* C18 (as claimed): a session that reached END has exactly one terminal
\* outcome: not two of them, and not none.
C18_ExactlyOneOutcome ==
    pc = "END" => Cardinality({o \in TerminalOutcomes : HasOutcome(o)}) = 1

\* C19: with fixed stand-ins for the retrieval and every oracle, every later
\* call of ask on the same agent with the same question reports the same
\* attempts, query_intent, escalated and augmentation_used as the first call,
\* whatever optimizer the first call left in the module globals.
C19_AskIdempotent ==
    agent.calls >= 2 =>
        /\ response.attempts = agent.first.attempts
        /\ response.query_intent = agent.first.query_intent
        /\ response.escalated = agent.first.escalated
        /\ response.augmentation_used = agent.first.augmentation_used

\* the second call ran with both optimizers left by the first one, asked the
\* intent oracle again and went through three attempts into the augmentation
C19_Witness ==
    /\ agent.calls = 2
    /\ agent.intent_optimizer
    /\ agent.components_optimizer
    /\ response.query_intent = "technical"
    /\ response.attempts = MAX_REASONING_ATTEMPTS
    /\ response.augmentation_used

IsPrefix(a, b) == Len(a) <= Len(b) /\ SubSeq(b, 1, Len(a)) = a

\* C20 (as claimed): after every step attempt_history holds one record per
\* executed attempt, in order (its length is attempt_count and its i-th record
\* is the one of attempt i), and the step has only appended to it.
C20_AttemptHistoryOnePerAttempt ==
    [][/\ Len(state'.attempt_history) = state'.attempt_count
       /\ \A i \in DOMAIN state'.attempt_history : state'.attempt_history[i].attempt = i
       /\ IsPrefix(state.attempt_history, state'.attempt_history)]_vars

\* _extract_query_evolution: one entry per record of attempt_history, paired
\* by position with attempt_confidences (0.0 when that list is shorter)
extract_query_evolution(final_state) ==
    [i \in DOMAIN final_state.attempt_history |->
        [attempt |-> final_state.attempt_history[i].attempt,
         query |-> final_state.attempt_history[i].optimized_query,
         confidence |-> IF i <= Len(final_state.attempt_confidences)
                        THEN final_state.attempt_confidences[i]
                        ELSE 0]]

LastExecuted(node) == Len(executed) >= 1 /\ executed[Len(executed)] = node

\* C21 (as claimed): after each evaluation attempt_confidences is as long as
\* attempt_history and its i-th entry is the confidence the scorer returned
\* for attempt i, and every entry of the query_evolution ask reports carries
\* the confidence of its own attempt.
C21_ConfidencesParallelToHistory ==
    /\ LastExecuted("enhanced_evaluate_content_quality") =>
          /\ Len(state.attempt_confidences) = Len(state.attempt_history)
          /\ state.attempt_confidences = scorer_returns
    /\ (pc = "returned" /\ ~raised) =>
          \A i \in DOMAIN extract_query_evolution(state) :
             LET e == extract_query_evolution(state)[i]
             IN e.attempt \in DOMAIN scorer_returns /\ e.confidence = scorer_returns[e.attempt]

\* the keys the intent classifier sets
ClassifierOutput(s) ==
    Classified(s.query_intent, s.business_type, s.requires_trade_secret_filter,
               s.confidence_threshold_override)

\* C22: original_query never changes once ask has put the user's query into
\* the initial state; query_intent, business_type,
\* requires_trade_secret_filter and confidence_threshold_override are not
\* changed by any step after the intent classifier; at END they are what the
\* classifier gives for the user's query.
C22_ClassifierKeysReadOnly ==
    [][/\ pc # "idle" => state'.original_query = state.original_query
       /\ pc \notin {"idle", "initialize_evaluation", "analyze_query_intent"} =>
             ClassifierOutput(state') = ClassifierOutput(state)
       /\ pc' = "END" =>
             \E llm \in LLMIntents :
                ClassifierOutput(state') = Classify(state'.original_query, llm)]_vars

\* a dosage session went through three attempts, the dosage fallback and the
\* answer synthesizer and still carries the classifier's values
C22_Witness ==
    /\ pc = "END"
    /\ state.original_query.dosage
    /\ Logged("dosage_fallback")
    /\ Executed("generate_evaluation_answer")
    /\ ClassifierOutput(state) = Classified("dosage", "none", FALSE, 60)

\* the final state of session i when its call of ask is the only one made in
\* a fresh process
RunsAlone(i) ==
    invoke("initialize_evaluation",
           Commit(initial_state(sessions[i].query), initial_state(sessions[i].query),
                  initial_state(sessions[i].query)),
           FreshAgent(sessions[i].query, sessions[i].stub)).state

\* C23: when two calls of ask are interleaved node by node, each session ends
\* with the attempt_count, attempt_history, attempt_confidences, best partial
\* and terminal outcome (with every other key of its state) it has when it
\* runs alone.
C23_SessionsDoNotInterfere ==
    \A i \in SessionIds :
       sessions[i].pc \in {"END", "returned"} => sessions[i].state = RunsAlone(i)

\* two sessions in the attempt loop at the same time: session 2 made its first
\* retrieval between two retrievals of session 1, which went on to exhaust its
\* attempts while session 2 was accepted
C23_Witness ==
    /\ sessions[1].pc = "END"
    /\ sessions[2].pc = "END"
    /\ sessions[1].state.attempt_count = MAX_REASONING_ATTEMPTS
    /\ sessions[1].state.augmentation_used
    /\ sessions[2].state.attempt_count = 1
    /\ sessions[2].state.query_intent = "dosage"
    /\ agent.intent_optimizer
    /\ agent.components_optimizer

\* C24: in the sequence of executed nodes every retrieval is directly followed
\* by one evaluation and every evaluation directly follows a retrieval; the
\* retrieval of attempt N+1 is about to run only when N retrievals and N
\* evaluations have been completed.
C24_RetrievalAndEvaluationAlternate ==
    /\ \A i \in DOMAIN executed :
          /\ executed[i] = "execute_search_attempt" =>
                IF i < Len(executed)
                THEN executed[i + 1] = "enhanced_evaluate_content_quality"
                ELSE pc = "enhanced_evaluate_content_quality" \/ raised
          /\ executed[i] = "enhanced_evaluate_content_quality" =>
                /\ i > 1
                /\ executed[i - 1] = "execute_search_attempt"
    /\ pc = "execute_search_attempt" =>
          /\ retrieval_calls = state.attempt_count
          /\ Len(scorer_returns) = state.attempt_count
    /\ pc = "enhanced_evaluate_content_quality" =>
          /\ retrieval_calls = state.attempt_count
          /\ Len(scorer_returns) = state.attempt_count - 1
    /\ pc \notin {"execute_search_attempt", "enhanced_evaluate_content_quality"} =>
          \/ retrieval_calls = Len(scorer_returns)
          \/ raised /\ retrieval_calls = Len(scorer_returns) + 1

\* three retrievals, each followed by its evaluation, then the synthesizer
C24_Witness ==
    /\ pc = "END"
    /\ executed = << "initialize_evaluation", "analyze_query_intent",
                     "execute_search_attempt", "enhanced_evaluate_content_quality",
                     "execute_search_attempt", "enhanced_evaluate_content_quality",
                     "execute_search_attempt", "enhanced_evaluate_content_quality",
                     "generate_evaluation_answer" >>

\* a session state with every result list replaced by its documents
WithoutScores(s) ==
    [s EXCEPT !.search_results = Documents(@),
              !.all_results = [i \in DOMAIN @ |-> Documents(@[i])],
              !.attempt_history = [i \in DOMAIN @ |-> [@[i] EXCEPT !.results = Documents(@)]],
              !.best_partial_result = [@ EXCEPT !.results = Documents(@)]]

\* C25: two sessions that are given the same documents in the same order with
\* different pinecone_score values show the scoring oracle the same prompt on
\* every attempt, are at the same node after every step, and end with the same
\* state (attempts, confidences, log, answer, escalation) apart from the scores.
C25_ScoresDoNotInfluenceOutcome ==
    /\ sessions[1].pc = sessions[2].pc
    /\ WithoutScores(sessions[1].state) = WithoutScores(sessions[2].state)
    /\ evaluation_prompt(sessions[1].state.search_results)
          = evaluation_prompt(sessions[2].state.search_results)

\* the two sessions were scored on result lists with different scores, one of
\* which the oracle rates highly, and both were accepted at attempt 2
C25_Witness ==
    /\ sessions[1].pc = "END"
    /\ sessions[2].pc = "END"
    /\ sessions[1].state.attempt_count = 2
    /\ sessions[1].state.search_results # sessions[2].state.search_results
    /\ sessions[1].state.all_results[1] # sessions[2].state.all_results[1]
    /\ sessions[1].state.model_confidence = 10 * MaxReply
    /\ sessions[2].state.model_confidence = 10 * MaxReply
    /\ sessions[2].state.final_answer.kind = "generated"

\* the intent classifier has run
IsClassified == Len(executed) >= 2

\* the canned answer and confidence the routing of C26 gives a classified
\* session, "loop" when it gives none
CannedRoute(s) ==
    CASE s.business_type = "partnership" ->
            [node |-> "handle_business_query", answer |-> Template("partnership"), confidence |-> 100]
      [] s.business_type = "technical_support" ->
            [node |-> "handle_business_query", answer |-> Template("technical_support"), confidence |-> 90]
      [] s.business_type \notin {"partnership", "technical_support"} /\ s.requires_trade_secret_filter ->
            [node |-> "check_trade_secrets", answer |-> Template("trade_secret"), confidence |-> 90]
      [] OTHER ->
            [node |-> "loop", answer |-> EmptyText, confidence |-> 0]

\* C26: after classification a session with business_type partnership or
\* technical_support runs handle_business_query and nothing else, one with
\* only the trade-secret flag runs check_trade_secrets and nothing else (the
\* business branch wins when both are set); such a session ends with the
\* canned answer, model_confidence 10.0, 9.0 and 9.0 respectively, no
\* retrieval and escalate=false, and ask returns exactly that (sessions cut
\* short by an exception end in the except branch of ask instead).
C26_CannedRouting ==
    (IsClassified /\ ~raised /\ CannedRoute(state).node # "loop") =>
        LET route == CannedRoute(state)
            after == SubSeq(executed, 3, Len(executed))
        IN /\ pc \in {route.node, "END", "returned"}
           /\ after = (IF pc = route.node THEN << >> ELSE << route.node >>)
           /\ retrieval_calls = 0
           /\ oracle_calls.scorer = 0
           /\ ~state.escalate
           /\ pc = "END" =>
                 /\ state.final_answer = route.answer
                 /\ state.model_confidence = route.confidence
                 /\ ~state.should_continue
           /\ pc = "returned" =>
                 /\ response.answer = route.answer
                 /\ response.model_confidence = route.confidence
                 /\ ~response.escalated
                 /\ response.attempts = 0

\* a question that hits the business and the production table: both
\* business_type and the trade-secret flag are set, the partnership answer is
\* returned
C26_Witness ==
    /\ pc = "returned"
    /\ ~raised
    /\ state.business_type = "partnership"
    /\ state.requires_trade_secret_filter
    /\ response.answer = Template("partnership")
    /\ response.model_confidence = 100

\* C27: a step of the evaluation node leads back to the search node exactly
\* when the confidence just returned is below the session threshold and
\* attempt_count is below MAX_REASONING_ATTEMPTS (and then should_continue is
\* true); every step of the search node raises attempt_count by exactly 1; and
\* should_continue is false whenever the workflow reaches END.
C27_LoopContinuation ==
    [][/\ (pc = "enhanced_evaluate_content_quality" /\ pc' \in Nodes) =>
             LET confidence == scorer_returns'[Len(scorer_returns')]
                 again == /\ confidence < state.confidence_threshold_override
                          /\ state.attempt_count < MAX_REASONING_ATTEMPTS
             IN /\ pc' = "execute_search_attempt" <=> again
                /\ state'.should_continue <=> again
                /\ state'.attempt_count = state.attempt_count
       /\ (pc = "execute_search_attempt" /\ pc' \in Nodes) =>
             /\ pc' = "enhanced_evaluate_content_quality"
             /\ state'.attempt_count = state.attempt_count + 1
       /\ pc' = "END" => ~state'.should_continue]_vars

\* the loop went back twice, the second time with a usable partial in hand,
\* and the third retrieval ran as attempt 3
C27_Witness ==
    /\ pc = "enhanced_evaluate_content_quality"
    /\ state.attempt_count = MAX_REASONING_ATTEMPTS
    /\ state.should_continue
    /\ Len(scorer_returns) = 2
    /\ scorer_returns[1] = 0
    /\ scorer_returns[2] >= PARTIAL_FLOOR
    /\ scorer_returns[2] < state.confidence_threshold_override

\* C28 (as claimed): a reply "CONFIDENCE: n" with n from 1 to 10 is parsed as
\* n by the document scorer and by the second pass; a reply without the
\* pattern gives 5.0 for document scoring and 3.0 for the second pass; every
\* confidence the scorer returns lies between 0 and 10.
C28_ParsedConfidence ==
    /\ pc \in {"scored", "returned"} =>
          LET reply == agent.stub.scorer[1]
          IN /\ (state.search_results # NoResults /\ reply.kind = "number" /\ reply.n \in 1..10) =>
                   scorer_returns[1] = 10 * reply.n
             /\ (state.search_results # NoResults /\ reply.kind = "malformed") =>
                   scorer_returns[1] = SCORER_DEFAULT_CONFIDENCE
             /\ scorer_returns[1] \in 0..100
    /\ pc = "returned" =>
          LET second == agent.stub.second_pass
          IN /\ (second.kind = "number" /\ second.n \in 1..10) =>
                   state.augmentation_confidence = 10 * second.n
             /\ second.kind = "malformed" =>
                   state.augmentation_confidence = SECOND_PASS_DEFAULT_CONFIDENCE

\* the step of the evaluation node from s to t is the one the node takes when
\* the scoring oracle replies reply (read off the keys the node assigns and
\* the log entry it adds)
EvaluationStepWith(s, t, reply) ==
    LET r == enhanced_evaluate_content_quality_v2(s, reply)
    IN /\ t.model_confidence = r.model_confidence
       /\ t.should_continue = r.should_continue
       /\ t.escalate = r.escalate
       /\ t.use_augmentation = r.use_augmentation
       /\ t.final_answer = r.final_answer
       /\ t.best_partial_result = r.best_partial_result
       /\ t.best_partial_confidence = r.best_partial_confidence
       /\ t.has_usable_partial = r.has_usable_partial
       /\ t.evaluation_log[Len(t.evaluation_log)] = r.evaluation_log[1]

\* C29: in a step of the evaluation node the scorer returns a value whatever
\* the oracle does: for an empty result list the confidence is 0.0 and the
\* oracle is not called; when the oracle call fails the confidence is 3.0
\* with the rationale tagged as a failed evaluation, the attempt is not
\* accepted and the best partial stays as it was.
C29_ScorerNeverRaises ==
    [][(pc = "enhanced_evaluate_content_quality" /\ pc' \in Nodes) =>
          LET confidence == scorer_returns'[Len(scorer_returns')]
          IN /\ Len(scorer_returns') = Len(scorer_returns) + 1
             /\ state.search_results = NoResults =>
                   /\ confidence = SCORER_EMPTY_CONFIDENCE
                   /\ oracle_calls'.scorer = oracle_calls.scorer
             /\ \A reply \in Replies :
                   (/\ state.search_results # NoResults
                    /\ reply.kind = "raise"
                    /\ EvaluationStepWith(state, state', reply)
                    /\ confidence = evaluate_content_quality(state.search_results, reply).confidence) =>
                      /\ confidence = SCORER_ERROR_CONFIDENCE
                      /\ evaluate_content_quality(state.search_results, reply).reasoning
                            = "evaluation_failed"
                      /\ oracle_calls'.scorer = oracle_calls.scorer + 1
                      /\ state'.evaluation_log[Len(state'.evaluation_log)].kind # "evaluation"
                      /\ confidence < state.confidence_threshold_override
                      /\ state'.best_partial_result = state.best_partial_result
                      /\ state'.best_partial_confidence = state.best_partial_confidence
                      /\ state'.has_usable_partial = state.has_usable_partial]_vars

\* the oracle failed on every attempt: three scores of 3.0, nothing stored,
\* the session escalated
C29_Witness ==
    /\ pc = "END"
    /\ scorer_returns = << SCORER_ERROR_CONFIDENCE, SCORER_ERROR_CONFIDENCE, SCORER_ERROR_CONFIDENCE >>
    /\ oracle_calls.scorer = 3
    /\ state.best_partial_result.isNone
    /\ ~state.has_usable_partial
    /\ state.escalate

\* the step of the search node from s to t is the one the node takes when the
\* retrieval service does service and the optimizer gives variants
SearchStepWith(s, t, variants, service) ==
    t.search_results =
        search_knowledge_enhanced(search_strategies(s.attempt_count + 1).use_multi_query,
                                  variants, service)

MaxWords == 10

\* _clean_optimal_query, lines 172-175: a cleaned reply of more than ten words
\* is cut to ten, one of fewer than two words gets two terms in front
MAX_QUERY_TERMS == 10

MIN_QUERY_TERMS == 2

\* an original query by its words: the words of one or two letters, those of
\* exactly three and those of more than three
WordCounts ==
    {w \in [short : 0..MaxWords, three : 0..MaxWords, long : 0..MaxWords] :
        w.short + w.three + w.long <= MaxWords}

\* a query string handed to the retrieval: the path that produced it, the
\* attempt it was produced for and the number of its terms
QueryString(kind, attempt, terms) == [kind |-> kind, attempt |-> attempt, terms |-> terms]

NoQueryString == QueryString("none", 0, 0)

QueryStrings ==
    [kind : {"llm", "fallback", "legacy"}, attempt : 1..MAX_REASONING_ATTEMPTS,
     terms : 0..(MaxWords + MIN_QUERY_TERMS)]

\* what the optimizer meets in optimize_query_dynamically: the llm property
\* raises, llm.invoke raises, the oracle replies (a reply is its words after an
\* optional "keywords:" prefix), or the call raises outside its own handler
OracleReply(prefixed, words) == [kind |-> "reply", prefixed |-> prefixed, words |-> words]

OracleFailure(kind) == [kind |-> kind, prefixed |-> FALSE, words |-> 0]

NotConsulted == OracleFailure("not_consulted")

DynamicOutcomes ==
    {OracleFailure(k) : k \in {"unavailable", "raise", "optimizer_raises"}} \cup
    {OracleReply(p, n) : p \in BOOLEAN, n \in 0..(MaxWords + 1)}

\* the number of whitespace-separated tokens of a raw reply
RawTokens(reply) == reply.words + (IF reply.prefixed THEN 1 ELSE 0)

\* _clean_optimal_query: the prefix is removed, then the length is validated
clean_optimal_query(reply) ==
    LET words == RawTokens(reply) - (IF reply.prefixed THEN 1 ELSE 0)
    IN CASE words > MAX_QUERY_TERMS -> MAX_QUERY_TERMS
         [] words < MIN_QUERY_TERMS -> MIN_QUERY_TERMS + words
         [] OTHER -> words

\* _fallback_optimization: the words of three letters or more and a domain
\* term for attempts 1 and 2, four fixed terms afterwards
fallback_optimization(original_query, attempt) ==
    LET words == original_query.three + original_query.long
    IN CASE attempt = 1 -> words + 1
         [] attempt = 2 -> words + 2
         [] OTHER -> 4

\* the topic tests of the legacy reformulation
LegacyTopics == {"salt", "dosage", "component", "coral", "problem", "fish", "water", "startup"}

\* the largest number of topics one query touches
MaxTopics == 2

\* the topics the keyword tests can find in a query: none in a query without words
TopicSets(original_query) ==
    IF original_query.short + original_query.three + original_query.long = 0
    THEN {{}} ELSE {topics \in SUBSET LegacyTopics : Cardinality(topics) <= MaxTopics}

\* optimize_query_for_attempt_legacy: the number of terms of the keyword
\* string of the first matching topic; without a topic attempt 1 keeps the
\* words of more than three letters and adds two terms
optimize_query_for_attempt_legacy(original_query, attempt, topics) ==
    LET is(t) == t \in topics
    IN CASE attempt = 1 ->
              (CASE is("salt") -> 9
                 [] is("dosage") /\ is("component") -> 5
                 [] is("dosage") -> 5
                 [] is("coral") -> 7
                 [] is("problem") -> 5
                 [] is("fish") -> 5
                 [] is("water") -> 6
                 [] is("startup") -> 6
                 [] OTHER -> original_query.long + 2)
         [] attempt = 2 ->
              (CASE is("salt") -> 10
                 [] is("dosage") -> 7
                 [] is("coral") -> 8
                 [] is("problem") -> 7
                 [] is("fish") -> 6
                 [] is("water") -> 8
                 [] is("startup") -> 6
                 [] OTHER -> 6)
         [] OTHER ->
              (CASE is("salt") \/ is("coral") \/ is("component") -> 6
                 [] is("startup") \/ is("water") -> 6
                 [] is("fish") -> 6
                 [] OTHER -> 5)

\* optimize_query_dynamically: the cleaned reply of the oracle, the fallback
\* when the oracle is unavailable or its call raises
optimize_query_dynamically(original_query, attempt, outcome) ==
    CASE outcome.kind = "reply" ->
            [raised |-> FALSE, query |-> QueryString("llm", attempt, clean_optimal_query(outcome))]
      [] outcome.kind \in {"unavailable", "raise"} ->
            [raised |-> FALSE,
             query |-> QueryString("fallback", attempt, fallback_optimization(original_query, attempt))]
      [] OTHER -> [raised |-> TRUE, query |-> NoQueryString]

\* faulty reformulation: an exception of the optimizer is not handled
reformulate_NoExcept(instance, original_query, attempt, topics, outcome) ==
    LET legacy == QueryString("legacy", attempt,
                              optimize_query_for_attempt_legacy(original_query, attempt, topics))
    IN IF optimize_query_for_attempt(instance) = "legacy"
       THEN [raised |-> FALSE, query |-> legacy]
       ELSE optimize_query_dynamically(original_query, attempt, outcome)

\* components.optimize_query_for_attempt, the query it returns: the legacy
\* query without an optimizer and when the optimizer raises
reformulate(instance, original_query, attempt, topics, outcome) ==
    LET legacy == QueryString("legacy", attempt,
                              optimize_query_for_attempt_legacy(original_query, attempt, topics))
        dynamic == optimize_query_dynamically(original_query, attempt, outcome)
    IN IF optimize_query_for_attempt(instance) = "legacy"
       THEN [raised |-> FALSE, query |-> legacy]
       ELSE IF dynamic.raised THEN [raised |-> FALSE, query |-> legacy] ELSE dynamic

\* an original query and an optimizer class that can or cannot be built; no
\* attempt has been made
ReformulateInit ==
    /\ pc = "execute_search_attempt"
    /\ \E q \in WordCounts : state = initialize_evaluation_v2(initial_state(q))
    /\ aliased = FALSE
    /\ response = NoResponse
    /\ raised = FALSE
    /\ retrieval_calls = 0
    /\ scorer_returns = << >>
    /\ executed = << >>
    /\ oracle_calls = NoCalls
    /\ \E c \in BOOLEAN :
          agent = FreshAgent(NoQuestion,
                             Stub(c, "other",
                                  [p \in Paths |-> [n \in 1..MAX_REASONING_ATTEMPTS |-> 1]],
                                  [n \in 1..MAX_REASONING_ATTEMPTS |-> Reply("malformed", 0)],
                                  GenerationRaises, Reply("malformed", 0), GenerationRaises))
    /\ sessions = NoSessions

\* the state execute_search_attempt returns when the reformulation gave query
Reformulated(s, a, query) ==
    LET path == optimize_query_for_attempt(
                    dynamic_optimizer(a.components_optimizer, a.stub.ctor_raises).instance)
        results == a.stub.retrieval[path][s.attempt_count + 1]
    IN [Commit(s, execute_search_attempt_mutation(s, results), execute_search_attempt(s, results))
           EXCEPT !.current_query = query]

\* execute_search_attempt with the reformulation in detail: the query is
\* reformulated and searched; an exception of the reformulation would leave
\* the node.  The evaluation between two attempts is left out: the next
\* attempt follows as long as attempts remain.
ReformulateAndSearch ==
    /\ pc = "execute_search_attempt"
    /\ LET opt == dynamic_optimizer(agent.components_optimizer, agent.stub.ctor_raises)
           attempt == state.attempt_count + 1
       IN \E outcome \in (IF opt.instance THEN DynamicOutcomes ELSE {NotConsulted}) :
          \E topics \in (IF outcome.kind \in {"not_consulted", "optimizer_raises"}
                         THEN TopicSets(state.original_query) ELSE {{}}) :
             LET r == reformulate(opt.instance, state.original_query, attempt, topics, outcome)
             IN /\ agent' = [agent EXCEPT !.components_optimizer = opt.cached]
                /\ raised' = r.raised
                /\ IF r.raised
                   THEN /\ pc' = "raised"
                        /\ UNCHANGED <<state, retrieval_calls>>
                   ELSE /\ state' = Reformulated(state, agent, r.query)
                        /\ retrieval_calls' = retrieval_calls + 1
                        /\ pc' = IF attempt < MAX_REASONING_ATTEMPTS
                                 THEN "execute_search_attempt" ELSE "END"
    /\ executed' = Append(executed, pc)
    /\ UNCHANGED <<aliased, response, scorer_returns, oracle_calls, sessions>>

ReformulateNext == ReformulateAndSearch

ReformulateSpec == ReformulateInit /\ [][ReformulateNext]_vars

\* a step of the search node on these inputs
ReformulateStepWith(outcome, topics) ==
    LET opt == dynamic_optimizer(agent.components_optimizer, agent.stub.ctor_raises)
        r == reformulate(opt.instance, state.original_query, state.attempt_count + 1,
                         topics, outcome)
    IN /\ pc = "execute_search_attempt"
       /\ opt.instance <=> outcome.kind # "not_consulted"
       /\ ~r.raised
       /\ state'.current_query = r.query
       /\ state' = Reformulated(state, agent, state'.current_query)

\* the generative path failed in this step of the search node: there is no
\* optimizer, the oracle is unavailable, its call raises, or the optimizer raises
GenerativePathFailed ==
    \/ /\ pc = "execute_search_attempt"
       /\ ~dynamic_optimizer(agent.components_optimizer, agent.stub.ctor_raises).instance
    \/ \E kind \in {"unavailable", "raise"} : ReformulateStepWith(OracleFailure(kind), {})
    \/ \E topics \in TopicSets(state.original_query) :
          ReformulateStepWith(OracleFailure("optimizer_raises"), topics)

\* C31: the reformulation never raises, and a step of the search node in
\* which the generative path failed (no optimizer, oracle unavailable, oracle
\* call raising, optimizer raising) hands the retrieval of that attempt a
\* query string of a deterministic path
C31_ReformulationFailureIsReplaced ==
    [][/\ ~raised' /\ pc' # "raised"
       /\ \/ /\ state'.current_query \in QueryStrings
             /\ state'.current_query.kind \in {"fallback", "legacy"}
             /\ state'.current_query.attempt = state.attempt_count + 1
             /\ state'.attempt_count = state.attempt_count + 1
             /\ retrieval_calls' = retrieval_calls + 1
          \/ ~GenerativePathFailed]_vars

\* the optimizer was built, the oracle failed in attempt 2, and the retrieval
\* of attempt 2 ran on the fallback query
C31_Witness ==
    /\ state.attempt_count = 2
    /\ retrieval_calls = 2
    /\ state.current_query.kind = "fallback"
    /\ agent.components_optimizer
    /\ ~raised

\* C32 (as claimed): the query string of every attempt has at most ten terms,
\* whichever path produced it and however long the original query is
C32_AtMostTenTerms ==
    state.attempt_count >= 1 => state.current_query.terms <= MAX_QUERY_TERMS

\* the confidence the pattern (\d+(?:\.\d+)?)/10 finds in an entry of the
\* log, 0.0 when the entry has no such text
ConfidenceInEntry(entry) ==
    IF entry.kind \in {"evaluation", "continuing", "dosage_fallback", "triggering_augmentation",
                       "escalating", "augmentation_successful", "augmentation_failed"}
    THEN entry.confidence ELSE 0

\* optimize_query_for_attempt, lines 113-126: the previous attempts handed to
\* the optimizer are made of the first attempt-1 entries of previous_evaluations
previous_attempts(previous_evaluations, attempt) ==
    IF attempt > 1
    THEN [i \in 1..(IF Len(previous_evaluations) < attempt - 1
                    THEN Len(previous_evaluations) ELSE attempt - 1) |->
             [attempt |-> i, confidence |-> ConfidenceInEntry(previous_evaluations[i]),
              reasoning |-> previous_evaluations[i]]]
    ELSE << >>

\* C33 (as claimed): when the search node is about to run attempt N > 1, the
\* previous attempts built for the optimizer from the evaluation_log it is
\* handed are N-1 entries, the i-th with the confidence the scorer gave attempt i
C33_ReformulatorReceivesHistory ==
    pc = "execute_search_attempt" /\ state.attempt_count >= 1
    => LET received == previous_attempts(state.evaluation_log, state.attempt_count + 1)
       IN /\ Len(received) = state.attempt_count
          /\ \A i \in 1..state.attempt_count : received[i].confidence = scorer_returns[i]

\* the last category, in the order business, production, dosage,
\* troubleshooting, support, whose keywords the query matches
LastMatchingCategory(q) ==
    CASE q.support -> "support"
      [] q.problem -> "troubleshooting"
      [] q.dosage -> "dosage"
      [] q.production -> "production"
      [] q.business -> "business"
      [] OTHER -> "general"

\* the threshold analyze_query_intent sets together with an intent, in the
\* pattern tables and in intent_mapping
default_threshold(intent) ==
    CASE intent = "business" -> 90
      [] intent = "production" -> 50
      [] intent \in {"dosage", "setup"} -> 60
      [] intent \in {"troubleshooting", "support", "technical", "maintenance"} -> 65
      [] OTHER -> DEFAULT_THRESHOLD

\* C34: once the classifier has run, query_intent is the last category, in the
\* order business, production, dosage, troubleshooting, support, that the
\* query matches (when it matches one), and the threshold is the default
\* threshold of query_intent
C34_LastMatchingCategoryDecides ==
    IsClassified
    => /\ LastMatchingCategory(state.original_query) # "general"
          => state.query_intent = LastMatchingCategory(state.original_query)
       /\ state.confidence_threshold_override = default_threshold(state.query_intent)

\* a query that matches the business and the dosage keywords and no later
\* category has been classified as dosage with threshold 6.0
C34_Witness ==
    /\ IsClassified
    /\ state.original_query.business /\ state.original_query.dosage
    /\ ~state.original_query.problem /\ ~state.original_query.support
    /\ state.query_intent = "dosage"
    /\ state.confidence_threshold_override = 60

(* ------------------------- the intent classifier ------------------------ *)
\* detect_intent_with_llm, line 265
valid_intents == {"technical", "product", "troubleshooting", "setup", "maintenance", "general"}

\* the intents analyze_query_intent can return after the oracle stage
MappedIntents == {"technical", "product_info", "troubleshooting", "setup", "maintenance", "general"}

\* what the intent oracle does: the llm property raises, llm.invoke raises, or
\* it replies: an intent name, an intent name in capitals with a blank after
\* it, or another text
IntentOracleOutcomes == valid_intents \cup {"SETUP ", "other", "raise", "unavailable"}

\* response.content.strip().lower()
StripLower(reply) == IF reply = "SETUP " THEN "setup" ELSE reply

\* detect_intent_with_llm: the normalised reply when it is a valid intent,
\* general otherwise and on any exception
detect_intent_with_llm(outcome) ==
    CASE outcome \in {"raise", "unavailable"} -> [raised |-> FALSE, intent |-> "general"]
      [] StripLower(outcome) \in valid_intents -> [raised |-> FALSE, intent |-> StripLower(outcome)]
      [] OTHER -> [raised |-> FALSE, intent |-> "general"]

\* the oracle stage of analyze_query_intent, lines 93-125: what the node takes
\* for the oracle's intent; an exception of the call and a missing optimizer
\* go to the failure branches of intent_mapping
llm_intent_of(instance, outcome) ==
    IF instance
    THEN LET detected == detect_intent_with_llm(outcome)
         IN IF detected.raised THEN "raise" ELSE detected.intent
    ELSE "unavailable"

\* a user query after initialize_evaluation, and an optimizer class that can
\* or cannot be built
ClassifyInit ==
    /\ pc = "analyze_query_intent"
    /\ \E q \in Queries : state = initialize_evaluation_v2(initial_state(q))
    /\ aliased = FALSE
    /\ response = NoResponse
    /\ raised = FALSE
    /\ retrieval_calls = 0
    /\ scorer_returns = << >>
    /\ executed = << "initialize_evaluation" >>
    /\ oracle_calls = NoCalls
    /\ \E c \in BOOLEAN :
          agent = FreshAgent(NoQuestion,
                             Stub(c, "other",
                                  [p \in Paths |-> [n \in 1..MAX_REASONING_ATTEMPTS |-> 1]],
                                  [n \in 1..MAX_REASONING_ATTEMPTS |-> Reply("malformed", 0)],
                                  GenerationRaises, Reply("malformed", 0), GenerationRaises))
    /\ sessions = NoSessions

\* analyze_query_intent with the oracle stage in detail
ClassifyQuery ==
    /\ pc = "analyze_query_intent"
    /\ LET general == PatternStage(state.original_query).intent = "general"
           opt == get_dynamic_optimizer(agent.intent_optimizer, agent.stub.ctor_raises)
       IN \E outcome \in (IF general /\ opt.instance THEN IntentOracleOutcomes ELSE {"unavailable"}) :
             /\ state' = Commit(state, state,
                                analyze_query_intent(state, llm_intent_of(opt.instance, outcome)))
             /\ oracle_calls' = IF general /\ opt.instance /\ outcome # "unavailable"
                                THEN [oracle_calls EXCEPT !.intent = @ + 1]
                                ELSE oracle_calls
             /\ agent' = IF general THEN [agent EXCEPT !.intent_optimizer = opt.cached] ELSE agent
    /\ pc' = business_or_trade_secrets(state')
    /\ executed' = Append(executed, pc)
    /\ UNCHANGED <<aliased, response, raised, retrieval_calls, scorer_returns, sessions>>

ClassifyNext ==
    \/ ClassifyQuery
    \/ HandleBusinessQuery
    \/ CheckTradeSecrets

ClassifySpec == ClassifyInit /\ [][ClassifyNext]_vars

\* some category's keywords are in the query
MatchesCategory(q) == q.business \/ q.production \/ q.dosage \/ q.problem \/ q.support

\* a step of the classifier in which the oracle stage met this outcome
ClassifyStepWith(outcome) ==
    /\ pc = "analyze_query_intent"
    /\ state' = Commit(state, state, analyze_query_intent(
                    state, llm_intent_of(get_dynamic_optimizer(agent.intent_optimizer,
                                                               agent.stub.ctor_raises).instance,
                                         outcome)))

\* C35: a step of the classifier does not raise; it calls the intent oracle
\* only for a query that matches no keyword category; for such a query it
\* returns one of the mapped intents with that intent's threshold, and it
\* returns general with threshold 7.0 when the optimizer is unavailable, the
\* oracle is unavailable, the oracle call raises or the reply is outside the
\* valid intents
C35_OracleOnlyForUnmatched ==
    [][pc = "analyze_query_intent"
       => /\ ~raised' /\ pc' # "raised"
          /\ MatchesCategory(state.original_query) => oracle_calls'.intent = oracle_calls.intent
          /\ ~MatchesCategory(state.original_query)
             => /\ state'.query_intent \in MappedIntents
                /\ state'.confidence_threshold_override = default_threshold(state'.query_intent)
                /\ oracle_calls'.intent = oracle_calls.intent
                   => state'.query_intent = "general"
                /\ \A outcome \in {"raise", "unavailable", "other"} :
                      ClassifyStepWith(outcome)
                      => /\ state'.query_intent = "general"
                         /\ state'.confidence_threshold_override = DEFAULT_THRESHOLD]_vars

\* the oracle was called for a query that matches no category and the
\* classifier returned general with threshold 7.0; the session goes on to the
\* retrieval
C35_Witness ==
    /\ IsClassified
    /\ ~MatchesCategory(state.original_query)
    /\ oracle_calls.intent = 1
    /\ state.query_intent = "general"
    /\ state.confidence_threshold_override = DEFAULT_THRESHOLD
    /\ pc = "execute_search_attempt"
    /\ ~raised

\* every evaluation so far got a reply without a CONFIDENCE value from the
\* scoring oracle: the scorer returned its default each time (no other reply of
\* ReplyNumbers gives 5.0)
EveryReplyMalformed ==
    /\ Len(scorer_returns) >= 1
    /\ \A i \in DOMAIN scorer_returns : scorer_returns[i] = SCORER_DEFAULT_CONFIDENCE

\* C36 (as claimed): a session in which every scorer reply lacks a parsable
\* CONFIDENCE value stores no best_partial_result, keeps has_usable_partial
\* false and does not enter the augmentation stage
C36_MalformedReplyNeverUsable ==
    EveryReplyMalformed
    => /\ state.best_partial_result.isNone
       /\ ~state.has_usable_partial
       /\ pc # "gpt_augmentation_mode"
       /\ ~Executed("gpt_augmentation_mode")

\* C37: in every state has_usable_partial is true exactly when
\* best_partial_result is set, and that exactly when best_partial_confidence
\* is at least 5.0; a set best_partial_result carries best_partial_confidence
\* as its confidence and an attempt number between 1 and attempt_count
C37_PartialFieldsAgree ==
    /\ state.has_usable_partial <=> ~state.best_partial_result.isNone
    /\ ~state.best_partial_result.isNone <=> state.best_partial_confidence >= PARTIAL_FLOOR
    /\ ~state.best_partial_result.isNone
       => /\ state.best_partial_result.confidence = state.best_partial_confidence
          /\ state.best_partial_result.attempt \in 1..state.attempt_count

\* the partial of attempt 1 is still the best one after attempt 3
C37_Witness ==
    /\ state.has_usable_partial
    /\ state.best_partial_result.attempt = 1
    /\ state.attempt_count = 3
    /\ state.best_partial_confidence = 60
    /\ state.best_partial_result.confidence = 60
    /\ Len(scorer_returns) = 3

(* --------------------- the augmentation's grounding --------------------- *)
\* faulty stage: the context is built from the results of the last attempt
augmentation_prompt_LastAttempt(s) == s.search_results

\* gpt_augmentation_mode, lines 182-193: the context the generation oracle is
\* shown is built from the results stored in best_partial_result
augmentation_prompt(s) == s.best_partial_result.results

\* a generation oracle as a function of the documents it is shown: a text
\* that passes the safety checks, of a different length for each document set
GroundingOracle ==
    [docs \in ResultSets |->
        Generation(Body(SAFETY_MIN_LEN + docs, TRUE, TRUE, TRUE, SAFETY_MIN_NEWLINES))]

\* the state after analyze_query_intent for a query that matches no category
\* and gets no intent from the oracle: general, threshold 7.0
GroundClassified ==
    LET s0 == initial_state(NoQuestion)
        s1 == Commit(s0, s0, initialize_evaluation_v2(s0))
    IN Commit(s1, s1, analyze_query_intent(s1, "other"))

\* a session about to start the retrieval loop; its generation oracle for the
\* augmentation is GroundingOracle
GroundInit ==
    /\ pc = "execute_search_attempt"
    /\ aliased \in BOOLEAN
    /\ state = GroundClassified
    /\ response = NoResponse
    /\ raised = FALSE
    /\ retrieval_calls = 0
    /\ scorer_returns = << >>
    /\ executed = << "initialize_evaluation", "analyze_query_intent" >>
    /\ oracle_calls = [NoCalls EXCEPT !.intent = 1]
    /\ agent = FreshAgent(NoQuestion,
                          Stub(FALSE, "other",
                               [p \in Paths |-> [n \in 1..MAX_REASONING_ATTEMPTS |-> NoResults]],
                               [n \in 1..MAX_REASONING_ATTEMPTS |-> Reply("malformed", 0)],
                               GroundingOracle, Reply("malformed", 0), GenerationRaises))
    /\ sessions = NoSessions

\* gpt_augmentation_mode with the generation oracle answering to the context
\* it is shown
GroundedAugmentation ==
    /\ pc = "gpt_augmentation_mode"
    /\ ~state.best_partial_result.isNone
    /\ \E reply \in Replies :
          state' = Commit(state, state,
                          gpt_augmentation_mode(state, agent.stub.augmentation[augmentation_prompt(state)],
                                                reply))
    /\ oracle_calls' = [oracle_calls EXCEPT !.augmentation = @ + 1, !.second_pass = @ + 1]
    /\ pc' = "END"
    /\ executed' = Append(executed, pc)
    /\ UNCHANGED <<aliased, response, raised, retrieval_calls, scorer_returns, agent, sessions>>

GroundNext ==
    \/ ExecuteSearchAttempt
    \/ EnhancedEvaluateContentQuality
    \/ GroundedAugmentation
    \/ GenerateEvaluationAnswer

GroundSpec == GroundInit /\ [][GroundNext]_vars

\* C38: the augmentation stage is about to run only with a best_partial_result,
\* and a step of the stage is the stage's outcome for the text the generation
\* oracle writes when shown the documents stored in best_partial_result
C38_AugmentationGroundedOnPartial ==
    [][/\ pc' = "gpt_augmentation_mode" => ~state'.best_partial_result.isNone
       /\ pc = "gpt_augmentation_mode"
          => \E reply \in Replies :
                AugmentationStepWith(state, state',
                                     GroundingOracle[state.best_partial_result.results], reply)]_vars

\* the stage ran on the partial of attempt 1 while the last attempt had
\* retrieved other documents, and the promoted answer is the text written for
\* the partial's documents
C38_Witness ==
    /\ Executed("gpt_augmentation_mode")
    /\ state.augmentation_used
    /\ state.best_partial_result.attempt = 1
    /\ state.search_results # NoResults
    /\ state.search_results # state.best_partial_result.results
    /\ state.final_answer.body = GroundingOracle[state.best_partial_result.results].body
    /\ state.final_answer.body # GroundingOracle[state.search_results].body

\* the query of the session matches a production, a business or a support pattern
MatchesCannedCategory ==
    state.original_query.production \/ state.original_query.business \/ state.original_query.support

evaluation_question_Reformulated(s) == s.current_query

\* enhanced_evaluate_content_quality_v2, lines 51-54: the question handed to
\* evaluate_content_quality is the original query
evaluation_question(s) == s.original_query

\* what a scoring oracle can be asked: a question, original or reformulated,
\* and the documents to score against it
ScoringPrompts ==
    ({NoQuestion} \cup {Optimized(n) : n \in 1..MAX_REASONING_ATTEMPTS}) \X (1..NumDocSets)

\* scoring oracles as functions of question and documents: "CONFIDENCE:
\* MaxReply" for one prompt, "CONFIDENCE: 6" for every other
QuestionOracles ==
    {[p \in ScoringPrompts |-> IF p = h THEN Reply("number", MaxReply) ELSE Reply("number", 6)] :
        h \in ScoringPrompts}

\* a session about to start the retrieval loop, with one of the scoring oracles
QuestionInit ==
    /\ pc = "execute_search_attempt"
    /\ aliased \in BOOLEAN
    /\ state = GroundClassified
    /\ response = NoResponse
    /\ raised = FALSE
    /\ retrieval_calls = 0
    /\ scorer_returns = << >>
    /\ executed = << "initialize_evaluation", "analyze_query_intent" >>
    /\ oracle_calls = [NoCalls EXCEPT !.intent = 1]
    /\ \E oracle \in QuestionOracles :
          agent = FreshAgent(NoQuestion,
                             Stub(FALSE, "other",
                                  [p \in Paths |-> [n \in 1..MAX_REASONING_ATTEMPTS |-> NoResults]],
                                  oracle, GenerationRaises, Reply("malformed", 0), GenerationRaises))
    /\ sessions = NoSessions

\* the reply of the session's scoring oracle in the evaluation node
QuestionReply(s, a) ==
    IF s.search_results = NoResults THEN Reply("malformed", 0)
    ELSE a.stub.scorer[<<evaluation_question(s), s.search_results>>]

\* enhanced_evaluate_content_quality_v2 with the scoring oracle answering to
\* the question and the documents it is shown
QuestionedEvaluation ==
    /\ pc = "enhanced_evaluate_content_quality"
    /\ LET reply == QuestionReply(state, agent)
       IN /\ state' = Commit(state, enhanced_evaluate_mutation(state, reply),
                             enhanced_evaluate_content_quality_v2(state, reply))
          /\ scorer_returns' =
                Append(scorer_returns, evaluate_content_quality(state.search_results, reply).confidence)
    /\ oracle_calls' = IF state.search_results = NoResults THEN oracle_calls
                       ELSE [oracle_calls EXCEPT !.scorer = @ + 1]
    /\ pc' = continue_augment_or_finish(state')
    /\ executed' = Append(executed, pc)
    /\ UNCHANGED <<aliased, response, raised, retrieval_calls, agent, sessions>>

QuestionNext ==
    \/ ExecuteSearchAttempt
    \/ QuestionedEvaluation
    \/ GptAugmentationMode
    \/ GenerateEvaluationAnswer

QuestionSpec == QuestionInit /\ [][QuestionNext]_vars

\* the session state with another reformulated query in current_query
WithQuery(s, q) == [s EXCEPT !.current_query = q]

\* C40: a step of the evaluation node on a non-empty result list is the step
\* for the reply the scoring oracle gives to original_query and the retrieved
\* documents, and the node that runs next is the same whatever the
\* reformulated query in current_query is
C40_ScoredAgainstOriginalQuery ==
    [][pc = "enhanced_evaluate_content_quality" /\ state.search_results # NoResults
       => /\ EvaluationStepWith(state, state',
                                agent.stub.scorer[<<state.original_query, state.search_results>>])
          /\ \A n \in 1..MAX_REASONING_ATTEMPTS :
                pc' = continue_augment_or_finish(
                          Commit(WithQuery(state, Optimized(n)),
                                 enhanced_evaluate_mutation(
                                     WithQuery(state, Optimized(n)),
                                     agent.stub.scorer[<<state.original_query, state.search_results>>]),
                                 enhanced_evaluate_content_quality_v2(
                                     WithQuery(state, Optimized(n)),
                                     agent.stub.scorer[<<state.original_query, state.search_results>>])))]_vars

\* attempt 2 was accepted on the reply to the original query, where the
\* oracle's reply to the reformulated query of attempt 2 would not have been
C40_Witness ==
    /\ state.attempt_count = 2
    /\ state.current_query = Optimized(2)
    /\ state.search_results # NoResults
    /\ Len(scorer_returns) = 2
    /\ agent.stub.scorer[<<state.original_query, state.search_results>>] = Reply("number", MaxReply)
    /\ agent.stub.scorer[<<state.current_query, state.search_results>>] = Reply("number", 6)
    /\ state.model_confidence = 10 * MaxReply
    /\ pc = "generate_evaluation_answer"

====
